---- MODULE Spec2Model ----
(***************************************************************************)
(* VS Code LLM Server: the streaming formatters (OpenAI chat-completion    *)
(* chunks, Anthropic message events), the VsCodeLmHandler run that feeds   *)
(* them, and the single handler instance the requests of one server share. *)
(***************************************************************************)
EXTENDS Integers, Sequences, FiniteSets, TLC

\* JavaScript null / undefined.
NULL == "<null>"

\* The requests in flight: two are enough for a second request to arrive
\* while a first one is in flight.
Req == {"r1", "r2"}

\* Bound: how many parts the language model's response streams carry at most,
\* all requests together.
MaxParts == 2

\* Bound: how many chunks a generator yields at most before its usage chunk.
MaxChunks == 3

\* A property that is not there (undefined).
Undefined == [type |-> "undefined"]

\* JSON.stringify of a JavaScript object with no property.
EmptyObject == << >>

\* Tool-call argument objects (Record<string, any>) used as inputs.
ArgObjects == { [location |-> "SF"], [location |-> "NYC", unit |-> "C"] }

\* JSON.stringify(chunk.arguments): the object as one JSON text.
JSONstringify(o) ==
  IF o = [location |-> "SF"] THEN "{\"location\":\"SF\"}"
  ELSE IF o = [location |-> "NYC", unit |-> "C"]
       THEN "{\"location\":\"NYC\",\"unit\":\"C\"}"
       ELSE "{}"

-----------------------------------------------------------------------------
(* StreamChunk: what createMessage yields to a formatter.                  *)

TextChunk(t) == [type |-> "text", text |-> t]

ToolCallChunk(id, name, args) ==
  [type |-> "tool_call", id |-> id, name |-> name, arguments |-> args]

UsageChunk(inTok, outTok) ==
  [type |-> "usage", inputTokens |-> inTok, outputTokens |-> outTok]

-----------------------------------------------------------------------------
(* SSE frames. sendSSE writes an optional "event:" line and a "data:" line; *)
(* a frame is the pair (event name or NULL, JSON payload).                 *)

Frame(event, data) == [event |-> event, data |-> data]

\* sendOpenAIChunk: a data-only frame.
OpenAIFrame(data) == Frame(NULL, data)

\* sendOpenAIDone: the literal terminator, sent raw and not as JSON.
OpenAIDone == Frame(NULL, [raw |-> "[DONE]"])

\* sendAnthropicEvent: the frame's event name is the payload's type.
AnthropicFrame(event, data) == Frame(event, data)

\* A ChatCompletionChunk with its single choice.
ChatCompletionChunk(delta, finish) ==
  OpenAIFrame([object |-> "chat.completion.chunk",
               choices |-> << [index |-> 0, delta |-> delta,
                               finish_reason |-> finish] >>])

\* handleSSEError: the one frame that carries the error body.
SSEErrorFrame(apiType, message) ==
  IF apiType = "openai"
  THEN OpenAIFrame([error |-> [message |-> message, type |-> "server_error"]])
  ELSE AnthropicFrame("error",
         [type |-> "error",
          error |-> [type |-> "api_error", message |-> message]])

-----------------------------------------------------------------------------
(* handleStreamingChatCompletion: the OpenAI streaming formatter.          *)

OpenAIInit ==
  [isFirstChunk |-> TRUE, hasToolCalls |-> FALSE, toolCallIndex |-> 0]

\* The delta of a text chunk: the role rides on the first chunk only.
OpenAITextDelta(isFirstChunk, text) ==
  IF isFirstChunk THEN [role |-> "assistant", content |-> text]
                  ELSE [content |-> text]

\* OpenAIRoleChunk that never sends the role chunk.
OpenAIRoleChunkNone(isFirstChunk) == << >>

\* The separate role chunk a tool call sends when nothing was sent before it.
OpenAIRoleChunk(isFirstChunk) ==
  IF isFirstChunk THEN << ChatCompletionChunk([role |-> "assistant"], NULL) >>
                  ELSE << >>

\* OpenAIToolCallDelta that ignores toolCallIndex.
OpenAIToolCallDeltaIndexZero(toolCallIndex, c) ==
  [tool_calls |-> << [index |-> 0, id |-> c.id, type |-> "function",
                      function |-> [name |-> c.name,
                                    arguments |-> JSONstringify(c.arguments)]] >>]

OpenAIToolCallDelta(toolCallIndex, c) ==
  [tool_calls |-> << [index |-> toolCallIndex, id |-> c.id, type |-> "function",
                      function |-> [name |-> c.name,
                                    arguments |-> JSONstringify(c.arguments)]] >>]

\* OpenAIFinishReason that ignores hasToolCalls.
OpenAIFinishReasonStop(hasToolCalls) == "stop"

OpenAIFinishReason(hasToolCalls) ==
  IF hasToolCalls THEN "tool_calls" ELSE "stop"

\* The loop body: one StreamChunk in, the frames written and the new locals out.
OpenAIOnChunk(st, c) ==
  CASE c.type = "text" ->
         [st  |-> [st EXCEPT !.isFirstChunk = FALSE],
          out |-> << ChatCompletionChunk(
                       OpenAITextDelta(st.isFirstChunk, c.text), NULL) >>]
    [] c.type = "tool_call" ->
         [st  |-> [st EXCEPT !.hasToolCalls = TRUE, !.isFirstChunk = FALSE,
                             !.toolCallIndex = @ + 1],
          out |-> OpenAIRoleChunk(st.isFirstChunk)
                  \o << ChatCompletionChunk(
                          OpenAIToolCallDelta(st.toolCallIndex, c), NULL) >>]
    [] c.type = "usage" ->
         [st  |-> st,
          out |-> << ChatCompletionChunk(
                       EmptyObject, OpenAIFinishReason(st.hasToolCalls)) >>]
    [] OTHER -> [st |-> st, out |-> << >>]

\* After the loop: sendOpenAIDone (closeSSE follows).
OpenAIFinish(st) == << OpenAIDone >>

-----------------------------------------------------------------------------
(* handleStreamingMessages: the Anthropic streaming formatter with         *)
(* content-block bookkeeping (text and tool_use blocks).                   *)

AnthropicInit ==
  [inputTokens |-> 0, outputTokens |-> 0, contentBlockIndex |-> 0,
   currentBlockIsOpen |-> FALSE, hasToolUse |-> FALSE]

MessageStart ==
  AnthropicFrame("message_start",
    [type |-> "message_start",
     message |-> [type |-> "message", role |-> "assistant", content |-> << >>,
                  stop_reason |-> NULL, stop_sequence |-> NULL,
                  usage |-> [input_tokens |-> 0, output_tokens |-> 0]]])

ContentBlockStart(index, block) ==
  AnthropicFrame("content_block_start",
    [type |-> "content_block_start", index |-> index, content_block |-> block])

ContentBlockDelta(index, delta) ==
  AnthropicFrame("content_block_delta",
    [type |-> "content_block_delta", index |-> index, delta |-> delta])

ContentBlockStop(index) ==
  AnthropicFrame("content_block_stop",
    [type |-> "content_block_stop", index |-> index])

MessageDelta(stopReason, outputTokens) ==
  AnthropicFrame("message_delta",
    [type |-> "message_delta",
     delta |-> [stop_reason |-> stopReason, stop_sequence |-> NULL],
     usage |-> [output_tokens |-> outputTokens]])

MessageStop == AnthropicFrame("message_stop", [type |-> "message_stop"])

\* Before the loop: message_start, written before createMessage is called.
AnthropicStart == [st |-> AnthropicInit, out |-> << MessageStart >>]

\* "Start text block if not already open".
AnthropicOpenText(st) ==
  IF st.currentBlockIsOpen THEN << >>
  ELSE << ContentBlockStart(st.contentBlockIndex, [type |-> "text", text |-> ""]) >>

\* AnthropicClosePrevious without the close: the index is kept and no
\* content_block_stop is written.
AnthropicClosePreviousSkipped(st) ==
  [out |-> << >>, index |-> st.contentBlockIndex]

\* "Close previous block if open": the stop frame and the index it leaves.
AnthropicClosePrevious(st) ==
  IF st.currentBlockIsOpen
  THEN [out |-> << ContentBlockStop(st.contentBlockIndex) >>,
        index |-> st.contentBlockIndex + 1]
  ELSE [out |-> << >>, index |-> st.contentBlockIndex]

\* The three frames of one tool_use block, all at one index.
AnthropicToolUseBlock(index, c) ==
  << ContentBlockStart(index, [type |-> "tool_use", id |-> c.id,
                               name |-> c.name, input |-> EmptyObject]),
     ContentBlockDelta(index, [type |-> "input_json_delta",
                               partial_json |-> JSONstringify(c.arguments)]),
     ContentBlockStop(index) >>

\* AnthropicIndexAfterToolUse without the increment.
AnthropicIndexKept(index) == index

\* contentBlockIndex++ after the tool_use block is closed.
AnthropicIndexAfterToolUse(index) == index + 1

\* AnthropicStopReason that ignores hasToolUse.
AnthropicStopReasonEndTurn(hasToolUse) == "end_turn"

AnthropicStopReason(hasToolUse) ==
  IF hasToolUse THEN "tool_use" ELSE "end_turn"

\* The loop body.
AnthropicOnChunk(st, c) ==
  CASE c.type = "text" ->
         [st  |-> [st EXCEPT !.currentBlockIsOpen = TRUE],
          out |-> AnthropicOpenText(st)
                  \o << ContentBlockDelta(st.contentBlockIndex,
                          [type |-> "text_delta", text |-> c.text]) >>]
    [] c.type = "tool_call" ->
         LET closed == AnthropicClosePrevious(st)
         IN  [st  |-> [st EXCEPT !.hasToolUse = TRUE,
                                 !.currentBlockIsOpen = FALSE,
                                 !.contentBlockIndex =
                                    AnthropicIndexAfterToolUse(closed.index)],
              out |-> closed.out \o AnthropicToolUseBlock(closed.index, c)]
    [] c.type = "usage" ->
         [st  |-> [st EXCEPT !.inputTokens = c.inputTokens,
                             !.outputTokens = c.outputTokens],
          out |-> << >>]
    [] OTHER -> [st |-> st, out |-> << >>]

\* AnthropicCloseOpen that leaves the block open.
AnthropicCloseOpenSkipped(st) == << >>

\* "Close any open content block" after the loop.
AnthropicCloseOpen(st) ==
  IF st.currentBlockIsOpen THEN << ContentBlockStop(st.contentBlockIndex) >>
                           ELSE << >>

\* After the loop: close the open block, message_delta, message_stop.
AnthropicFinish(st) ==
  AnthropicCloseOpen(st)
  \o << MessageDelta(AnthropicStopReason(st.hasToolUse), st.outputTokens),
        MessageStop >>

-----------------------------------------------------------------------------
(* handleStreamingMessages of src/handlers/anthropicHandler.ts: the        *)
(* text-only formatter, which opens block 0 before the loop.               *)

TextOnlyInit == [inputTokens |-> 0, outputTokens |-> 0, isFirstChunk |-> TRUE]

\* Before the loop: message_start, then content_block_start for block 0.
TextOnlyStart ==
  [st  |-> [TextOnlyInit EXCEPT !.isFirstChunk = FALSE],
   out |-> << MessageStart,
              ContentBlockStart(0, [type |-> "text", text |-> ""]) >>]

TextOnlyOnChunk(st, c) ==
  CASE c.type = "text" ->
         [st  |-> st,
          out |-> << ContentBlockDelta(0, [type |-> "text_delta",
                                           text |-> c.text]) >>]
    [] c.type = "usage" ->
         [st  |-> [st EXCEPT !.inputTokens = c.inputTokens,
                             !.outputTokens = c.outputTokens],
          out |-> << >>]
    [] OTHER -> [st |-> st, out |-> << >>]

TextOnlyFinish(st) ==
  << ContentBlockStop(0), MessageDelta("end_turn", st.outputTokens), MessageStop >>

-----------------------------------------------------------------------------
(* The three streaming formatters behind one interface.                    *)

\* "openai": handleStreamingChatCompletion; "anthropic": handleStreamingMessages
\* with tool_use blocks; "anthropic_text": the text-only handleStreamingMessages.
Apis == {"openai", "anthropic", "anthropic_text"}

\* The apiType each formatter hands to handleSSEError.
ApiType(a) == IF a = "openai" THEN "openai" ELSE "anthropic"

FormatterInit(a) ==
  CASE a = "openai" -> OpenAIInit
    [] a = "anthropic" -> AnthropicInit
    [] OTHER -> TextOnlyInit

\* The code between initSSE and the for-await loop.
FormatterStart(a) ==
  CASE a = "openai" -> [st |-> OpenAIInit, out |-> << >>]
    [] a = "anthropic" -> AnthropicStart
    [] OTHER -> TextOnlyStart

FormatterOnChunk(a, st, c) ==
  CASE a = "openai" -> OpenAIOnChunk(st, c)
    [] a = "anthropic" -> AnthropicOnChunk(st, c)
    [] OTHER -> TextOnlyOnChunk(st, c)

FormatterFinish(a, st) ==
  CASE a = "openai" -> OpenAIFinish(st)
    [] a = "anthropic" -> AnthropicFinish(st)
    [] OTHER -> TextOnlyFinish(st)

-----------------------------------------------------------------------------
(* The language model's response stream (response.stream of sendRequest):  *)
(* LanguageModelTextPart, LanguageModelToolCallPart, or something else.    *)

LmTextPart(value) == [kind |-> "text", isString |-> TRUE, value |-> value]

\* A text part whose value is not a string.
LmBadTextPart == [kind |-> "text", isString |-> FALSE, value |-> ""]

LmToolCallPart(callId, name, input) ==
  [kind |-> "tool_call", callId |-> callId, name |-> name, input |-> input]

LmUnknownPart == [kind |-> "unknown"]

\* The parts the model's stream is drawn from: text, empty text, a text
\* part whose value is no string, a well-formed tool call, tool calls
\* without a name, without a call id and without an input, a part of
\* another class.
LmParts ==
  { LmTextPart("Hi"), LmTextPart(""), LmBadTextPart,
    LmToolCallPart("t1", "get_weather", [location |-> "SF"]),
    LmToolCallPart("t2", "", [location |-> "SF"]),
    LmToolCallPart("", "get_weather", [location |-> "SF"]),
    LmToolCallPart("t3", "get_weather", Undefined),
    LmUnknownPart }

\* A LanguageModelToolCallPart that passes createMessage's three checks:
\* a name, a call id and an input object.
WellFormedToolCall(part) ==
  /\ part.kind = "tool_call"
  /\ part.name # "" /\ part.callId # "" /\ part.input # Undefined

\* client.countTokens: the model's own token count of a text (external).
LmCountTokens(text) == Len(text)

\* The converted message lists (vsCodeMessages, by their text) of a request.
RequestMessages == { << "Hi" >>, << "Be brief", "Hi" >> }

\* Error messages of the failures the language model can raise.
LmErrorMessage == "Language model unavailable"
CancelledMessage == "Request cancelled by user"
NullTokenMessage == "Cannot read properties of null (reading 'token')"
CreateClientMessage ==
  "Failed to create VS Code LM client: Failed to select VS Code LM model: "
  \o LmErrorMessage

-----------------------------------------------------------------------------
(* VsCodeLmHandler.createMessage: what one part of the response stream     *)
(* becomes.                                                                *)

\* "Convert tool calls to text format".
ToolCallText(part) ==
  "{\"type\":\"tool_call\",\"name\":\"" \o part.name \o "\",\"arguments\":"
  \o JSONstringify(part.input) \o ",\"callId\":\"" \o part.callId \o "\"}"

\* PartText without the typeof check of a text part's value.
PartTextUnchecked(part) ==
  CASE part.kind = "text" -> part.value
    [] part.kind = "tool_call" ->
         IF WellFormedToolCall(part) THEN ToolCallText(part) ELSE NULL
    [] OTHER -> NULL

\* The text a part adds to accumulatedText, or NULL when the part is skipped.
PartText(part) ==
  CASE part.kind = "text" -> IF part.isString THEN part.value ELSE NULL
    [] part.kind = "tool_call" ->
         IF WellFormedToolCall(part) THEN ToolCallText(part) ELSE NULL
    [] OTHER -> NULL

\* The chunks createMessage yields for one part of the stream.
PartChunks(part) ==
  IF PartText(part) = NULL THEN << >> ELSE << TextChunk(PartText(part)) >>

-----------------------------------------------------------------------------
(* State.                                                                  *)

VARIABLES
  api,        \* per request: the streaming formatter that serves it
  messages,   \* per request: its converted messages
  pc,         \* per request: where its handling stands
  client,     \* VsCodeLmHandler.client (NULL or the selected model)
  currentRequestCancellation,
              \* VsCodeLmHandler.currentRequestCancellation: NULL, or the
              \* CancellationTokenSource, named by the request that created it
  cancelled,  \* the CancellationTokenSources cancel() was called on
  run,        \* per request: the locals of its createMessage call
  lmParts,    \* per request: the parts pulled from the model's stream so far
  events,     \* per request: the StreamChunks handed to its formatter so far
  fmt,        \* per request: the locals of its formatter
  frames,     \* per request: the SSE frames handed to res.write so far
  ended,      \* per request: how many times res.end() was called
  clientClosed,
              \* per request: the client has closed the connection
  closedAt,   \* per request: how many frames were written when it closed
  errlog,     \* per request: the messages its formatter logged as errors
  flushed     \* per request: how many of its frames the socket has sent on

VARIABLES
  wire,       \* the wire payload handed to an inbound adapter (NoPayload: none)
  converted,  \* what each call of the adapter on that payload returned
  warned,     \* the tool-call ids logger.warn was called with by the adapter
  config,     \* the AuthConfig the server's auth middleware was created with
  req         \* per request: its path and its credential headers

VARIABLES
  counting,   \* the countTokens call observed on its own: its argument, what
              \* the model answered and what the call returned
  failure     \* the errorHandler call observed on its own: the error, the
              \* request's path, res.headersSent and what was written

VARIABLES
  server,     \* extension.ts: the module-level `server` (NoServer, or the
              \* number of the LLMServer it refers to)
  llmServers, \* per LLMServer: whether it was constructed, its `server`
              \* field (set or null) and the state of the http.Server
  portHeld,   \* another program is listening on the configured port
  tasks       \* per caller: the call it is in and the LLMServer it awaits

lifecycleVars == << server, llmServers, portHeld, tasks >>

VARIABLES
  lmVersion,  \* how many versions of the 'lm' configuration there have been
  selectedAt, \* the version under which `client` was selected (0: no client)
  initializing,
              \* the version under which the constructor's initializeClient
              \* asked for a model (0: it is not pending)
  selection   \* per request: the version at which its createMessage was
              \* called, at which its getClient asked for a model, and under
              \* which the client it got was selected

selectionVars == << lmVersion, selectedAt, initializing, selection >>

VARIABLES
  post,       \* per request: the JSON body of the POST and its
              \* anthropic-version header
  rateLimit,  \* ServerConfig.rateLimit: requests per minute, 0 to disable
  hits        \* the requests the rate limiter has counted in this window

pipelineVars == << post, rateLimit, hits >>

adapterVars == << wire, converted, warned >>

unitVars ==
  << counting, failure, lifecycleVars, selectionVars, pipelineVars >>

authVars == << config, req >>

vars == << api, messages, pc, client, currentRequestCancellation, cancelled,
           run, lmParts, events, fmt, frames, ended, clientClosed, closedAt,
           errlog, flushed, wire, converted, warned, config, req, counting,
           failure, server, llmServers, portHeld, tasks, lmVersion,
           selectedAt, initializing, selection, post, rateLimit, hits >>

\* No payload is being converted.
NoPayload == [api |-> "none"]

AdapterIdle == wire = NoPayload /\ converted = << >> /\ warned = << >>

\* Authentication disabled; the requests carry no credential.
AuthOff ==
  /\ config = [enableAuth |-> FALSE, apiKey |-> NULL]
  /\ req = [r \in Req |-> [path |-> NULL, authorization |-> NULL,
                           xApiKey |-> NULL]]

\* No countTokens call is being observed.
NoCount == [called |-> FALSE]

\* No errorHandler call is being observed.
NoFailure == [called |-> FALSE]

\* Bound: how many LLMServer objects are constructed.
MaxInstances == 3

\* The callers whose calls interleave.
Tasks == {"k1", "k2"}

\* An LLMServer before its constructor has run.
NoInstance == [constructed |-> FALSE, server |-> FALSE, http |-> "none"]

TaskIdle == [pc |-> "idle", op |-> "none", target |-> 0]

\* `let server: LLMServer | null = null`.
NoServer == 0

\* The extension is not being observed.
LifecycleIdle ==
  /\ server = NoServer
  /\ llmServers = [i \in 1..MaxInstances |-> NoInstance]
  /\ portHeld = FALSE
  /\ tasks = [k \in Tasks |-> TaskIdle]

\* Bound: how many times the 'lm' configuration changes.
MaxChanges == 2

NoSelection == [startedAt |-> 0, askedAt |-> 0, usedAt |-> 0]

\* The selection of the client is not being observed.
SelectionIdle ==
  /\ lmVersion = 1
  /\ selectedAt = 0
  /\ initializing = 0
  /\ selection = [r \in Req |-> NoSelection]

\* A request whose body and headers are not being observed.
NoPost == [body |-> [type |-> "none"], anthropicVersion |-> NULL]

\* The middleware chain is not being observed; no rate limit.
PipelineIdle ==
  /\ post = [r \in Req |-> NoPost]
  /\ rateLimit = 0
  /\ hits = 0

UnitsIdle ==
  /\ counting = NoCount /\ failure = NoFailure
  /\ LifecycleIdle /\ SelectionIdle /\ PipelineIdle

\* The variables of the requests being served.
servedVars ==
  << adapterVars, authVars, flushed, api, messages, pc, run, lmParts, events,
     fmt, frames, ended, clientClosed, closedAt, errlog >>

handlerVars == << client, currentRequestCancellation, cancelled >>

\* The locals of createMessage before it runs.
RunInit ==
  [token |-> NULL, messageTokens |-> << >>, totalInputTokens |-> 0,
   accumulatedText |-> "",
   countSource |-> NULL]

TypeOK ==
  /\ api \in [Req -> Apis \cup {"openai_json", "anthropic_json", "anthropic_text_json"}]
  /\ messages \in [Req -> RequestMessages]
  /\ pc \in [Req -> {"absent", "arrived", "rejected", "routing", "validating",
                     "handling", "idle",
                     "getClient", "countInput", "sendRequest", "stream",
                     "countOutput", "done", "failed"}]
  /\ client \in {NULL, "model"}
  /\ currentRequestCancellation \in Req \cup {NULL}
  /\ cancelled \subseteq Req
  /\ \A r \in Req : ended[r] \in Nat /\ Len(lmParts[r]) <= MaxParts

\* All requests idle; the constructor's initializeClient may or may not have
\* selected a model yet.
RequestsInit(active) ==
  /\ api \in [Req -> Apis]
  /\ messages \in [Req -> RequestMessages]
  /\ pc = [r \in Req |-> IF r \in active THEN "idle" ELSE "absent"]
  /\ \A r \in Req \ active :
       api[r] = "openai" /\ messages[r] = << "Hi" >>
  /\ client \in {NULL, "model"}
  /\ currentRequestCancellation = NULL
  /\ cancelled = {}
  /\ run = [r \in Req |-> RunInit]
  /\ lmParts = [r \in Req |-> << >>]
  /\ events = [r \in Req |-> << >>]
  /\ fmt = [r \in Req |-> FormatterInit(api[r])]
  /\ frames = [r \in Req |-> << >>]
  /\ ended = [r \in Req |-> 0]
  /\ clientClosed = [r \in Req |-> FALSE]
  /\ closedAt = [r \in Req |-> 0]
  /\ errlog = [r \in Req |-> << >>]
  /\ flushed = [r \in Req |-> 0]

InitWith(active) ==
  RequestsInit(active) /\ AdapterIdle /\ AuthOff /\ UnitsIdle

-----------------------------------------------------------------------------
(* Pieces the actions share.                                               *)

\* VsCodeLmHandler.ensureCleanState: cancel and drop the current source.
EnsureCleanState ==
  /\ cancelled' = IF currentRequestCancellation = NULL THEN cancelled
                  ELSE cancelled \cup {currentRequestCancellation}
  /\ currentRequestCancellation' = NULL

\* calculateTotalInputTokens: the sums Promise.all can deliver. A count made
\* with a token that is cancelled meanwhile may come back as 0.
RECURSIVE InputTokenSums(_, _)
InputTokenSums(msgs, mayFail) ==
  IF msgs = << >> THEN {0}
  ELSE LET rest == InputTokenSums(Tail(msgs), mayFail)
           one  == {LmCountTokens(Head(msgs))} \cup (IF mayFail THEN {0} ELSE {})
       IN  {a + b : a \in one, b \in rest}

\* calculateTotalInputTokens, messageTokens: the counts Promise.all can
\* deliver, one per message and in the messages' order.
RECURSIVE MessageTokenCounts(_, _)
MessageTokenCounts(msgs, mayFail) ==
  IF msgs = << >> THEN {<< >>}
  ELSE LET one == {LmCountTokens(Head(msgs))} \cup (IF mayFail THEN {0} ELSE {})
       IN  {<< a >> \o rest : a \in one,
                              rest \in MessageTokenCounts(Tail(msgs), mayFail)}

\* SumTokens that returns the first count only.
SumTokensFirstOnly(counts) == IF counts = << >> THEN 0 ELSE Head(counts)

\* calculateTotalInputTokens: messageTokens.reduce((sum, tokens) => sum + tokens, 0).
RECURSIVE SumTokens(_)
SumTokens(counts) ==
  IF counts = << >> THEN 0 ELSE Head(counts) + SumTokens(Tail(counts))

\* countTokens(accumulatedText) at the call: NULL when it returns 0 without
\* asking the model (no client, no cancellation source, empty text), else the
\* source whose token the count is made with.
CountSource(text) ==
  IF client = NULL \/ currentRequestCancellation = NULL \/ text = ""
  THEN NULL ELSE currentRequestCancellation

\* The values countTokens(accumulatedText) can resolve to.
OutputTokenCounts(source, text) ==
  IF source = NULL THEN {0}
  ELSE {LmCountTokens(text)} \cup (IF source \in cancelled THEN {0} ELSE {})

\* HandleStreamError without handleSSEError's frame: log and close only.
HandleStreamErrorNoBody(r, message) ==
  /\ errlog' = [errlog EXCEPT ![r] = Append(@, message)]
  /\ frames' = frames
  /\ ended' = [ended EXCEPT ![r] = @ + 1]
  /\ pc' = [pc EXCEPT ![r] = "failed"]

\* The catch block of a streaming formatter: log, handleSSEError (one frame
\* with the error body, then closeSSE).
HandleStreamError(r, message) ==
  /\ errlog' = [errlog EXCEPT ![r] = Append(@, message)]
  /\ frames' = [frames EXCEPT ![r] = Append(@, SSEErrorFrame(ApiType(api[r]), message))]
  /\ ended' = [ended EXCEPT ![r] = @ + 1]
  /\ pc' = [pc EXCEPT ![r] = "failed"]

\* The failures the model can answer an await with: an error at any time, a
\* CancellationError once the token it was given is cancelled. createMessage's
\* catch turns the latter into 'Request cancelled by user'.
LmFailures(token) ==
  {LmErrorMessage} \cup (IF token \in cancelled THEN {CancelledMessage} ELSE {})

\* The parts pulled from the model's stream by all requests together.
PartsPulled ==
  LET RECURSIVE Sum(_)
      Sum(S) == IF S = {} THEN 0
                ELSE LET r == CHOOSE x \in S : TRUE
                     IN  Len(lmParts[r]) + Sum(S \ {r})
  IN  Sum(Req)

-----------------------------------------------------------------------------
(* One request served by a streaming formatter and VsCodeLmHandler.        *)

\* initSSE, the frames before the loop, and the first step of createMessage:
\* ensureCleanState(), then await getClient().
Start(r) ==
  /\ pc[r] = "idle"
  /\ LET s == FormatterStart(api[r])
     IN  /\ fmt' = [fmt EXCEPT ![r] = s.st]
         /\ frames' = [frames EXCEPT ![r] = @ \o s.out]
  /\ EnsureCleanState
  /\ pc' = [pc EXCEPT ![r] = "getClient"]
  /\ UNCHANGED << unitVars, adapterVars, authVars, flushed,
                  api, messages, client, run, lmParts, events, ended,
                  clientClosed, closedAt, errlog >>

\* getClient resolves; createMessage makes its CancellationTokenSource and
\* starts one countTokens per message.
GetClient(r) ==
  /\ pc[r] = "getClient"
  /\ client' = "model"
  /\ currentRequestCancellation' = r
  /\ pc' = [pc EXCEPT ![r] = "countInput"]
  /\ UNCHANGED << unitVars, adapterVars, authVars, flushed,
                  api, messages, cancelled, run, lmParts, events, fmt, frames,
                  ended, clientClosed, closedAt, errlog >>

\* getClient has no client and createClient fails: createMessage throws
\* before its try block.
GetClientFail(r) ==
  /\ pc[r] = "getClient"
  /\ client = NULL
  /\ HandleStreamError(r, CreateClientMessage)
  /\ UNCHANGED << unitVars, adapterVars, authVars, flushed,
                  api, messages, handlerVars, run, lmParts, events, fmt,
                  clientClosed, closedAt >>

\* The input counts resolve; createMessage reads
\* this.currentRequestCancellation.token and calls sendRequest.
CountInput(r) ==
  /\ pc[r] = "countInput"
  /\ currentRequestCancellation # NULL
  /\ \E counts \in MessageTokenCounts(messages[r], r \in cancelled) :
       run' = [run EXCEPT ![r].messageTokens = counts,
                          ![r].totalInputTokens = SumTokens(counts),
                          ![r].token = currentRequestCancellation]
  /\ pc' = [pc EXCEPT ![r] = "sendRequest"]
  /\ UNCHANGED << unitVars, adapterVars, authVars, flushed,
                  api, messages, handlerVars, lmParts, events, fmt, frames,
                  ended, clientClosed, closedAt, errlog >>

\* ... but the source is gone (another call's ensureCleanState dropped it):
\* reading .token of null throws inside the try block.
CountInputNoToken(r) ==
  /\ pc[r] = "countInput"
  /\ currentRequestCancellation = NULL
  /\ EnsureCleanState
  /\ HandleStreamError(r, NullTokenMessage)
  /\ UNCHANGED << unitVars, adapterVars, authVars, flushed,
                  api, messages, client, run, lmParts, events, fmt,
                  clientClosed, closedAt >>

\* sendRequest resolves with the response.
SendRequest(r) ==
  /\ pc[r] = "sendRequest"
  /\ pc' = [pc EXCEPT ![r] = "stream"]
  /\ UNCHANGED << unitVars, adapterVars, authVars, flushed,
                  api, messages, handlerVars, run, lmParts, events, fmt,
                  frames, ended, clientClosed, closedAt, errlog >>

\* sendRequest or the response stream throws: createMessage's catch runs
\* ensureCleanState and rethrows; the formatter's catch handles it.
LmThrow(r) ==
  /\ pc[r] \in {"sendRequest", "stream"}
  /\ \E message \in LmFailures(run[r].token) : HandleStreamError(r, message)
  /\ EnsureCleanState
  /\ UNCHANGED << unitVars, adapterVars, authVars, flushed,
                  api, messages, client, run, lmParts, events, fmt,
                  clientClosed, closedAt >>

\* One part of the response stream: createMessage skips it or yields a chunk,
\* and the formatter's loop body writes the chunk's frames.
StreamPart(r) ==
  /\ pc[r] = "stream"
  /\ PartsPulled < MaxParts
  /\ \E part \in LmParts :
       LET chunks == PartChunks(part)
           res == IF chunks = << >> THEN [st |-> fmt[r], out |-> << >>]
                  ELSE FormatterOnChunk(api[r], fmt[r], chunks[1])
       IN  /\ lmParts' = [lmParts EXCEPT ![r] = Append(@, part)]
           /\ run' = [run EXCEPT ![r].accumulatedText =
                        IF PartText(part) = NULL THEN @ ELSE @ \o PartText(part)]
           /\ events' = [events EXCEPT ![r] = @ \o chunks]
           /\ fmt' = [fmt EXCEPT ![r] = res.st]
           /\ frames' = [frames EXCEPT ![r] = @ \o res.out]
  /\ UNCHANGED << unitVars, adapterVars, authVars, flushed,
                  api, messages, pc, handlerVars, ended, clientClosed,
                  closedAt, errlog >>

\* The response stream ends: createMessage calls countTokens(accumulatedText).
StreamEnd(r) ==
  /\ pc[r] = "stream"
  /\ run' = [run EXCEPT ![r].countSource = CountSource(run[r].accumulatedText)]
  /\ pc' = [pc EXCEPT ![r] = "countOutput"]
  /\ UNCHANGED << unitVars, adapterVars, authVars, flushed,
                  api, messages, handlerVars, lmParts, events, fmt, frames,
                  ended, clientClosed, closedAt, errlog >>

\* CountOutput that returns without yielding the usage chunk.
CountOutputNoUsage(r) ==
  /\ pc[r] = "countOutput"
  /\ frames' = [frames EXCEPT ![r] = @ \o FormatterFinish(api[r], fmt[r])]
  /\ ended' = [ended EXCEPT ![r] = @ + 1]
  /\ pc' = [pc EXCEPT ![r] = "done"]
  /\ UNCHANGED << unitVars, adapterVars, authVars, flushed,
                  api, messages, handlerVars, run, lmParts, events,
                  fmt, clientClosed, closedAt, errlog >>

\* The output count resolves: createMessage yields the usage chunk and
\* returns; the formatter handles the chunk, leaves the loop, writes its
\* closing frames and calls closeSSE.
CountOutput(r) ==
  /\ pc[r] = "countOutput"
  /\ \E out \in OutputTokenCounts(run[r].countSource, run[r].accumulatedText) :
       LET usage == UsageChunk(run[r].totalInputTokens, out)
           res == FormatterOnChunk(api[r], fmt[r], usage)
       IN  /\ events' = [events EXCEPT ![r] = Append(@, usage)]
           /\ fmt' = [fmt EXCEPT ![r] = res.st]
           /\ frames' = [frames EXCEPT ![r] =
                           @ \o res.out \o FormatterFinish(api[r], res.st)]
  /\ ended' = [ended EXCEPT ![r] = @ + 1]
  /\ pc' = [pc EXCEPT ![r] = "done"]
  /\ UNCHANGED << unitVars, adapterVars, authVars, flushed,
                  api, messages, handlerVars, run, lmParts, clientClosed,
                  closedAt, errlog >>

\* The client closes the connection while the response is being streamed.
\* Neither formatter registers a listener for it.
ClientClose(r) ==
  /\ pc[r] \in {"getClient", "countInput", "sendRequest", "stream", "countOutput"}
  /\ ~clientClosed[r]
  /\ clientClosed' = [clientClosed EXCEPT ![r] = TRUE]
  /\ closedAt' = [closedAt EXCEPT ![r] = Len(frames[r])]
  /\ UNCHANGED << unitVars, adapterVars, authVars, flushed,
                  api, messages, pc, handlerVars, run, lmParts, events, fmt,
                  frames, ended, errlog >>

\* The onDidChangeConfiguration listener of the handler, on a change that
\* affects 'lm': the client is dropped and ensureCleanState runs.
ConfigChange ==
  /\ client' = NULL
  /\ EnsureCleanState
  /\ UNCHANGED << unitVars, adapterVars, authVars, flushed,
                  api, messages, pc, run, lmParts, events, fmt, frames, ended,
                  clientClosed, closedAt, errlog >>

Serve(r) ==
  \/ Start(r) \/ GetClient(r) \/ GetClientFail(r) \/ CountInput(r)
  \/ CountInputNoToken(r) \/ SendRequest(r) \/ LmThrow(r) \/ StreamPart(r)
  \/ StreamEnd(r) \/ CountOutput(r)

\* One streaming request, whose client may close the connection, while the
\* language-model configuration may change.
Init == InitWith({"r1"})

Next ==
  \/ \E r \in Req : Serve(r) \/ ClientClose(r)
  \/ ConfigChange

Spec == Init /\ [][Next]_vars

\* Two concurrent streaming requests on the one handler of the extension
\* (activate creates a single VsCodeLmHandler and hands it to the server).
InitConc == InitWith(Req) /\ \A r \in Req : api[r] = "openai"

NextConc == \E r \in Req : Serve(r)

SpecConc == InitConc /\ [][NextConc]_vars

-----------------------------------------------------------------------------
(* A streaming formatter on its own, fed by any generator of StreamChunks  *)
(* that keeps createMessage's shape: text and tool_call chunks, then one   *)
(* usage chunk and the return, or a throw at any point.                    *)

GenChunks ==
  { TextChunk("Hi"), TextChunk(""),
    ToolCallChunk("t1", "get_weather", [location |-> "SF"]),
    ToolCallChunk("t2", "get_time", [location |-> "NYC", unit |-> "C"]) }

GenUsages == { UsageChunk(5, 1), UsageChunk(3, 0) }

\* initSSE and the frames before the loop.
GenStart(r) ==
  /\ pc[r] = "idle"
  /\ LET s == FormatterStart(api[r])
     IN  /\ fmt' = [fmt EXCEPT ![r] = s.st]
         /\ frames' = [frames EXCEPT ![r] = @ \o s.out]
  /\ pc' = [pc EXCEPT ![r] = "stream"]
  /\ UNCHANGED << unitVars, adapterVars, authVars, flushed,
                  api, messages, handlerVars, run, lmParts, events, ended,
                  clientClosed, closedAt, errlog >>

\* The generator yields a text or tool_call chunk; the loop body handles it.
GenYield(r) ==
  /\ pc[r] = "stream"
  /\ Len(events[r]) < MaxChunks
  /\ \E c \in GenChunks :
       LET res == FormatterOnChunk(api[r], fmt[r], c)
       IN  /\ events' = [events EXCEPT ![r] = Append(@, c)]
           /\ fmt' = [fmt EXCEPT ![r] = res.st]
           /\ frames' = [frames EXCEPT ![r] = @ \o res.out]
  /\ UNCHANGED << unitVars, adapterVars, authVars, flushed,
                  api, messages, pc, handlerVars, run, lmParts, ended,
                  clientClosed, closedAt, errlog >>

\* GenReturn without the closeSSE after the closing frames.
GenReturnNoClose(r) ==
  /\ pc[r] = "stream"
  /\ \E usage \in GenUsages :
       LET res == FormatterOnChunk(api[r], fmt[r], usage)
       IN  /\ events' = [events EXCEPT ![r] = Append(@, usage)]
           /\ fmt' = [fmt EXCEPT ![r] = res.st]
           /\ frames' = [frames EXCEPT ![r] =
                           @ \o res.out \o FormatterFinish(api[r], res.st)]
  /\ pc' = [pc EXCEPT ![r] = "done"]
  /\ UNCHANGED << unitVars, adapterVars, authVars, flushed,
                  api, messages, handlerVars, run, lmParts, clientClosed,
                  closedAt, errlog, ended >>

\* The generator yields its usage chunk and returns; the formatter handles
\* the chunk, leaves the loop, writes its closing frames and calls closeSSE.
GenReturn(r) ==
  /\ pc[r] = "stream"
  /\ \E usage \in GenUsages :
       LET res == FormatterOnChunk(api[r], fmt[r], usage)
       IN  /\ events' = [events EXCEPT ![r] = Append(@, usage)]
           /\ fmt' = [fmt EXCEPT ![r] = res.st]
           /\ frames' = [frames EXCEPT ![r] =
                           @ \o res.out \o FormatterFinish(api[r], res.st)]
  /\ ended' = [ended EXCEPT ![r] = @ + 1]
  /\ pc' = [pc EXCEPT ![r] = "done"]
  /\ UNCHANGED << unitVars, adapterVars, authVars, flushed,
                  api, messages, handlerVars, run, lmParts, clientClosed,
                  closedAt, errlog >>

\* The generator throws; the formatter's catch handles it.
GenThrow(r) ==
  /\ pc[r] = "stream"
  /\ HandleStreamError(r, LmErrorMessage)
  /\ UNCHANGED << unitVars, adapterVars, authVars, flushed,
                  api, messages, handlerVars, run, lmParts, events, fmt,
                  clientClosed, closedAt >>

NextFmt ==
  \E r \in Req : GenStart(r) \/ GenYield(r) \/ GenReturn(r) \/ GenThrow(r)

SpecFmt == Init /\ [][NextFmt]_vars

-----------------------------------------------------------------------------
(* The non-streaming formatters: handleChatCompletion and handleMessages   *)
(* fold the chunks of createMessage into locals and build one response.    *)

OpenAICollectInit ==
  [accumulatedText |-> "", toolCalls |-> << >>, inputTokens |-> 0,
   outputTokens |-> 0]

\* OpenAICollect that assigns the text instead of appending it.
OpenAICollectLastText(st, c) ==
  CASE c.type = "text" ->
         [st EXCEPT !.accumulatedText = c.text]
    [] c.type = "tool_call" ->
         [st EXCEPT !.toolCalls =
            Append(@, [id |-> c.id, type |-> "function",
                       function |-> [name |-> c.name,
                                     arguments |-> JSONstringify(c.arguments)]])]
    [] c.type = "usage" ->
         [st EXCEPT !.inputTokens = c.inputTokens,
                    !.outputTokens = c.outputTokens]
    [] OTHER -> st

\* The loop body of handleChatCompletion.
OpenAICollect(st, c) ==
  CASE c.type = "text" ->
         [st EXCEPT !.accumulatedText = @ \o c.text]
    [] c.type = "tool_call" ->
         [st EXCEPT !.toolCalls =
            Append(@, [id |-> c.id, type |-> "function",
                       function |-> [name |-> c.name,
                                     arguments |-> JSONstringify(c.arguments)]])]
    [] c.type = "usage" ->
         [st EXCEPT !.inputTokens = c.inputTokens,
                    !.outputTokens = c.outputTokens]
    [] OTHER -> st

\* accumulatedText || null.
TextOrNull(text) == IF text = "" THEN NULL ELSE text

\* OpenAIResponseMessage that always carries tool_calls.
OpenAIResponseMessageAlwaysToolCalls(st) ==
  [role |-> "assistant", content |-> TextOrNull(st.accumulatedText),
   tool_calls |-> st.toolCalls]

\* responseMessage: tool_calls is set only when there is a tool call.
OpenAIResponseMessage(st) ==
  IF Len(st.toolCalls) > 0
  THEN [role |-> "assistant", content |-> TextOrNull(st.accumulatedText),
        tool_calls |-> st.toolCalls]
  ELSE [role |-> "assistant", content |-> TextOrNull(st.accumulatedText)]

\* OpenAIUsage with the two counts swapped.
OpenAIUsageSwapped(st) ==
  [prompt_tokens |-> st.outputTokens, completion_tokens |-> st.inputTokens,
   total_tokens |-> st.inputTokens + st.outputTokens]

OpenAIUsage(st) ==
  [prompt_tokens |-> st.inputTokens, completion_tokens |-> st.outputTokens,
   total_tokens |-> st.inputTokens + st.outputTokens]

\* The ChatCompletionResponse built after the loop.
OpenAIResponse(st) ==
  [object |-> "chat.completion",
   choices |-> << [index |-> 0, message |-> OpenAIResponseMessage(st),
                   finish_reason |->
                     IF Len(st.toolCalls) > 0 THEN "tool_calls" ELSE "stop"] >>,
   usage |-> OpenAIUsage(st)]

AnthropicCollectInit ==
  [accumulatedText |-> "", contentBlocks |-> << >>, inputTokens |-> 0,
   outputTokens |-> 0]

\* The loop body of handleMessages.
AnthropicCollect(st, c) ==
  CASE c.type = "text" ->
         [st EXCEPT !.accumulatedText = @ \o c.text]
    [] c.type = "tool_call" ->
         [st EXCEPT !.contentBlocks =
            Append(@, [type |-> "tool_use", id |-> c.id, name |-> c.name,
                       input |-> c.arguments])]
    [] c.type = "usage" ->
         [st EXCEPT !.inputTokens = c.inputTokens,
                    !.outputTokens = c.outputTokens]
    [] OTHER -> st

\* responseContent: the text block if there is text, then the tool_use blocks.
AnthropicResponseContent(st) ==
  (IF st.accumulatedText # ""
   THEN << [type |-> "text", text |-> st.accumulatedText] >> ELSE << >>)
  \o st.contentBlocks

\* The MessagesResponse built after the loop.
AnthropicResponse(st) ==
  [type |-> "message", role |-> "assistant",
   content |-> AnthropicResponseContent(st),
   stop_reason |-> IF Len(st.contentBlocks) > 0 THEN "tool_use" ELSE "end_turn",
   stop_sequence |-> NULL,
   usage |-> [input_tokens |-> st.inputTokens,
              output_tokens |-> st.outputTokens]]

\* handleMessages of src/handlers/anthropicHandler.ts: text and usage only.
TextOnlyCollectInit ==
  [accumulatedText |-> "", inputTokens |-> 0, outputTokens |-> 0]

TextOnlyCollect(st, c) ==
  CASE c.type = "text" ->
         [st EXCEPT !.accumulatedText = @ \o c.text]
    [] c.type = "usage" ->
         [st EXCEPT !.inputTokens = c.inputTokens,
                    !.outputTokens = c.outputTokens]
    [] OTHER -> st

TextOnlyResponse(st) ==
  [type |-> "message", role |-> "assistant",
   content |-> << [type |-> "text", text |-> st.accumulatedText] >>,
   stop_reason |-> "end_turn", stop_sequence |-> NULL,
   usage |-> [input_tokens |-> st.inputTokens,
              output_tokens |-> st.outputTokens]]

\* The three non-streaming formatters behind one interface.
NonStreamingApis == {"openai_json", "anthropic_json", "anthropic_text_json"}

CollectInit(a) ==
  CASE a = "openai_json" -> OpenAICollectInit
    [] a = "anthropic_json" -> AnthropicCollectInit
    [] OTHER -> TextOnlyCollectInit

Collect(a, st, c) ==
  CASE a = "openai_json" -> OpenAICollect(st, c)
    [] a = "anthropic_json" -> AnthropicCollect(st, c)
    [] OTHER -> TextOnlyCollect(st, c)

Response(a, st) ==
  CASE a = "openai_json" -> OpenAIResponse(st)
    [] a = "anthropic_json" -> AnthropicResponse(st)
    [] OTHER -> TextOnlyResponse(st)

\* A whole run folded: the locals after the chunks es, from the locals st.
RECURSIVE CollectAll(_, _, _)
CollectAll(a, st, es) ==
  IF es = << >> THEN st
  ELSE CollectAll(a, Collect(a, st, Head(es)), Tail(es))

-----------------------------------------------------------------------------
(* A non-streaming request: the route handler of server.ts awaits the      *)
(* formatter and sends its result with res.json; a failure is rethrown to  *)
(* Express, whose error middleware is errorHandler.                        *)

\* The route a formatter serves.
RoutePath(a) ==
  IF a \in {"openai", "openai_json"} THEN "/v1/chat/completions"
                                     ELSE "/v1/messages"

\* String.prototype.includes.
Includes(s, sub) ==
  \E i \in 1..Len(s) :
    i + Len(sub) - 1 <= Len(s) /\ SubSeq(s, i, i + Len(sub) - 1) = sub

\* String.prototype.toLowerCase, letter by letter.
LowerCaseLetter(c) ==
  CASE c = "A" -> "a" [] c = "B" -> "b" [] c = "C" -> "c" [] c = "D" -> "d"
    [] c = "E" -> "e" [] c = "F" -> "f" [] c = "G" -> "g" [] c = "H" -> "h"
    [] c = "I" -> "i" [] c = "J" -> "j" [] c = "K" -> "k" [] c = "L" -> "l"
    [] c = "M" -> "m" [] c = "N" -> "n" [] c = "O" -> "o" [] c = "P" -> "p"
    [] c = "Q" -> "q" [] c = "R" -> "r" [] c = "S" -> "s" [] c = "T" -> "t"
    [] c = "U" -> "u" [] c = "V" -> "v" [] c = "W" -> "w" [] c = "X" -> "x"
    [] c = "Y" -> "y" [] c = "Z" -> "z" [] OTHER -> c

RECURSIVE toLowerCase(_)
toLowerCase(s) ==
  IF s = "" THEN ""
  ELSE LowerCaseLetter(SubSeq(s, 1, 1)) \o toLowerCase(SubSeq(s, 2, Len(s)))

\* errorHandler.getApiType: req.path.includes('/messages').
getApiType(path) == IF Includes(path, "/messages") THEN "anthropic" ELSE "openai"

\* errorHandler.getStatusCode: the first of its tests that the lower-cased
\* message passes decides.
getStatusCode(message) ==
  LET has(word) == Includes(toLowerCase(message), word)
  IN  CASE has("unauthorized") \/ has("authentication") -> 401
        [] has("forbidden") -> 403
        [] has("not found") -> 404
        [] has("rate limit") -> 429
        [] has("invalid") \/ has("validation") -> 400
        [] has("cancelled") -> 499
        [] has("unavailable") \/ has("timeout") -> 503
        [] OTHER -> 500

\* err.message || 'An error occurred processing your request.'
ErrorBodyMessage(message) ==
  IF message = "" THEN "An error occurred processing your request." ELSE message

\* res.status(status).json(body).
JsonResponse(status, body) == [status |-> status, body |-> body]

\* errorHandler's body for the wrong protocol.
errorHandlerOtherProtocol(message, path) ==
  LET statusCode == getStatusCode(message)
      type == IF statusCode = 500 THEN "api_error" ELSE "invalid_request_error"
  IN  IF getApiType(path) = "openai"
      THEN JsonResponse(statusCode,
             [type |-> "error", error |-> [type |-> type, message |-> ErrorBodyMessage(message)]])
      ELSE JsonResponse(statusCode,
             [error |-> [message |-> ErrorBodyMessage(message), type |-> type,
                         code |-> IF statusCode = 500 THEN "internal_error"
                                  ELSE "invalid_request"]])

\* errorHandler: the one error response, in the shape of the route's protocol.
errorHandler(message, path) ==
  LET statusCode == getStatusCode(message)
      type == IF statusCode = 500 THEN "api_error" ELSE "invalid_request_error"
  IN  IF getApiType(path) = "anthropic"
      THEN JsonResponse(statusCode,
             [type |-> "error", error |-> [type |-> type, message |-> ErrorBodyMessage(message)]])
      ELSE JsonResponse(statusCode,
             [error |-> [message |-> ErrorBodyMessage(message), type |-> type,
                         code |-> IF statusCode = 500 THEN "internal_error"
                                  ELSE "invalid_request"]])

\* The failures createMessage can throw into a formatter.
RunFailures == {LmErrorMessage, CancelledMessage, NullTokenMessage}

\* The route handler calls the formatter, which calls createMessage.
NonStreamingStart(r) ==
  /\ pc[r] = "idle"
  /\ pc' = [pc EXCEPT ![r] = "stream"]
  /\ UNCHANGED << unitVars, adapterVars, authVars, flushed,
                  api, messages, handlerVars, run, lmParts, events, fmt,
                  frames, ended, clientClosed, closedAt, errlog >>

\* The generator yields a text or tool_call chunk; the loop body folds it.
NonStreamingYield(r) ==
  /\ pc[r] = "stream"
  /\ Len(events[r]) < MaxChunks
  /\ \E c \in GenChunks :
       /\ events' = [events EXCEPT ![r] = Append(@, c)]
       /\ fmt' = [fmt EXCEPT ![r] = Collect(api[r], @, c)]
  /\ UNCHANGED << unitVars, adapterVars, authVars, flushed,
                  api, messages, pc, handlerVars, run, lmParts, frames, ended,
                  clientClosed, closedAt, errlog >>

\* The generator yields its usage chunk and returns; the formatter builds the
\* response and the route handler sends it with res.json.
NonStreamingReturn(r) ==
  /\ pc[r] = "stream"
  /\ \E usage \in GenUsages :
       LET st == Collect(api[r], fmt[r], usage)
       IN  /\ events' = [events EXCEPT ![r] = Append(@, usage)]
           /\ fmt' = [fmt EXCEPT ![r] = st]
           /\ frames' = [frames EXCEPT ![r] =
                           Append(@, JsonResponse(200, Response(api[r], st)))]
  /\ ended' = [ended EXCEPT ![r] = @ + 1]
  /\ pc' = [pc EXCEPT ![r] = "done"]
  /\ UNCHANGED << unitVars, adapterVars, authVars, flushed,
                  api, messages, handlerVars, run, lmParts, clientClosed,
                  closedAt, errlog >>

\* The generator throws: the formatter logs and rethrows, the route handler
\* rethrows (no header was sent), and Express hands the rejection of the
\* async handler to errorHandler.
NonStreamingThrow(r) ==
  /\ pc[r] = "stream"
  /\ \E message \in RunFailures :
       /\ errlog' = [errlog EXCEPT ![r] = Append(@, message)]
       /\ frames' = [frames EXCEPT ![r] =
                       Append(@, errorHandler(message, RoutePath(api[r])))]
  /\ ended' = [ended EXCEPT ![r] = @ + 1]
  /\ pc' = [pc EXCEPT ![r] = "failed"]
  /\ UNCHANGED << unitVars, adapterVars, authVars, flushed,
                  api, messages, handlerVars, run, lmParts, events, fmt,
                  clientClosed, closedAt >>

\* ... or Express does not observe the promise the async handler returns
\* (its router before version 5): the rejection reaches no middleware and
\* nothing is written.
NonStreamingThrowUnobserved(r) ==
  /\ pc[r] = "stream"
  /\ \E message \in RunFailures :
       errlog' = [errlog EXCEPT ![r] = Append(@, message)]
  /\ pc' = [pc EXCEPT ![r] = "failed"]
  /\ UNCHANGED << unitVars, adapterVars, authVars, flushed,
                  api, messages, handlerVars, run, lmParts, events, fmt,
                  frames, ended, clientClosed, closedAt >>

\* One non-streaming request.
InitJson ==
  /\ api \in [Req -> NonStreamingApis]
  /\ \A r \in Req \ {"r1"} : api[r] = "openai_json"
  /\ messages = [r \in Req |-> << "Hi" >>]
  /\ pc = [r \in Req |-> IF r = "r1" THEN "idle" ELSE "absent"]
  /\ client = "model"
  /\ currentRequestCancellation = NULL
  /\ cancelled = {}
  /\ run = [r \in Req |-> RunInit]
  /\ lmParts = [r \in Req |-> << >>]
  /\ events = [r \in Req |-> << >>]
  /\ fmt = [r \in Req |-> CollectInit(api[r])]
  /\ frames = [r \in Req |-> << >>]
  /\ ended = [r \in Req |-> 0]
  /\ clientClosed = [r \in Req |-> FALSE]
  /\ closedAt = [r \in Req |-> 0]
  /\ errlog = [r \in Req |-> << >>]
  /\ flushed = [r \in Req |-> 0]
  /\ AdapterIdle /\ AuthOff /\ UnitsIdle

NextJson ==
  \E r \in Req :
    \/ NonStreamingStart(r) \/ NonStreamingYield(r) \/ NonStreamingReturn(r)
    \/ NonStreamingThrow(r) \/ NonStreamingThrowUnobserved(r)

SpecJson == InitJson /\ [][NextJson]_vars

-----------------------------------------------------------------------------
(* The transport under a stream. res.write hands a frame to the socket,    *)
(* which buffers it until the peer takes it; sendSSE does not look at what *)
(* res.write returns and no formatter waits for 'drain'.                   *)

\* The socket sends the oldest buffered frame on to the client.
Flush(r) ==
  /\ flushed[r] < Len(frames[r])
  /\ flushed' = [flushed EXCEPT ![r] = @ + 1]
  /\ UNCHANGED << unitVars, adapterVars, authVars, api, messages, pc, handlerVars, run,
                  lmParts, events, fmt, frames, ended, clientClosed, closedAt,
                  errlog >>

NextTransport ==
  \E r \in Req :
    GenStart(r) \/ GenYield(r) \/ GenReturn(r) \/ GenThrow(r) \/ Flush(r)

SpecTransport == Init /\ [][NextTransport]_vars

-----------------------------------------------------------------------------
(* Reading a written stream back.                                          *)

Last(seq) == seq[Len(seq)]

\* The positions of the frames with a given event name.
Positions(fs, event) == {i \in DOMAIN fs : fs[i].event = event}

\* The content-block indices open after the first n frames: started and not
\* stopped since.
OpenBlocks(fs, n) ==
  LET open == { i \in 1..n :
                  /\ fs[i].event = "content_block_start"
                  /\ ~\E j \in (i + 1)..n :
                        /\ fs[j].event = "content_block_stop"
                        /\ fs[j].data.index = fs[i].data.index }
  IN  { fs[i].data.index : i \in open }

\* The frames that are chat-completion chunks (not [DONE], not an error body).
IsChunk(f) ==
  /\ f.event = NULL
  /\ "choices" \in DOMAIN f.data

\* The frames that carry an error body.
IsErrorFrame(f) ==
  \/ f.event = "error"
  \/ f.event = NULL /\ "error" \in DOMAIN f.data

ToolCallEvents(r) == {i \in DOMAIN events[r] : events[r][i].type = "tool_call"}

TextEvents(r) == {i \in DOMAIN events[r] : events[r][i].type = "text"}

-----------------------------------------------------------------------------
(* Claims about the Anthropic formatter with content blocks, under SpecFmt. *)

\* C5: in a run that ends normally, every content-block index used has
\* exactly one content_block_start and exactly one content_block_stop, the
\* start before the stop, and the k-th content_block_start carries index k-1.
C5_BlockIndexMonotonic ==
  \A r \in Req :
    (api[r] = "anthropic" /\ pc[r] = "done") =>
      LET fs == frames[r]
          starts == Positions(fs, "content_block_start")
          stops == Positions(fs, "content_block_stop")
      IN  /\ \A i \in starts :
               /\ fs[i].data.index = Cardinality({j \in starts : j < i})
               /\ Cardinality({j \in stops :
                                 fs[j].data.index = fs[i].data.index}) = 1
               /\ \A j \in stops :
                    fs[j].data.index = fs[i].data.index => i < j
          /\ \A j \in stops :
               Cardinality({i \in starts :
                              fs[i].data.index = fs[j].data.index}) = 1

\* A finished run with text, then a tool call, then text again: three blocks.
C5_Witness ==
  \E r \in Req :
    /\ api[r] = "anthropic" /\ pc[r] = "done"
    /\ Len(events[r]) = 4
    /\ events[r][1].type = "text" /\ events[r][2].type = "tool_call"
    /\ events[r][3].type = "text"
    /\ Cardinality(Positions(frames[r], "content_block_start")) = 3

\* C6: at most one content block is open at any time, every content_block_delta
\* carries the index of the block open when it is written, nothing is open when
\* a tool_use block is started, and no index is used by two blocks.
C6_OneOpenBlock ==
  \A r \in Req :
    api[r] = "anthropic" =>
      LET fs == frames[r]
          starts == Positions(fs, "content_block_start")
      IN  /\ \A n \in DOMAIN fs : Cardinality(OpenBlocks(fs, n)) <= 1
          /\ \A n \in Positions(fs, "content_block_delta") :
               OpenBlocks(fs, n) = {fs[n].data.index}
          /\ \A n \in starts :
               fs[n].data.content_block.type = "tool_use" =>
                 OpenBlocks(fs, n - 1) = {}
          /\ \A i, j \in starts :
               fs[i].data.index = fs[j].data.index => i = j

\* A tool call arrived while a text block was open.
C6_Witness ==
  \E r \in Req :
    /\ api[r] = "anthropic"
    /\ Len(events[r]) >= 2
    /\ events[r][1].type = "text" /\ events[r][2].type = "tool_call"
    /\ \E n \in Positions(frames[r], "content_block_start") :
         /\ frames[r][n].data.content_block.type = "tool_use"
         /\ frames[r][n].data.index = 1

\* C9: message_start is the first frame, written before any event is taken
\* from the generator; a run that ends normally ends with message_delta and
\* message_stop, written with no block left open, and only then is the
\* connection closed (once).
C9_StartFirstStopLast ==
  \A r \in Req :
    api[r] = "anthropic" =>
      LET fs == frames[r]
          n == Len(fs)
      IN  /\ pc[r] = "idle" => events[r] = << >> /\ fs = << >>
          /\ pc[r] # "idle" =>
               /\ fs[1] = MessageStart
               /\ Positions(fs, "message_start") = {1}
          /\ pc[r] = "stream" => ended[r] = 0
          /\ pc[r] = "done" =>
               /\ fs[n] = MessageStop
               /\ Positions(fs, "message_stop") = {n}
               /\ Positions(fs, "message_delta") = {n - 1}
               /\ OpenBlocks(fs, n - 2) = {}
               /\ Last(events[r]).type = "usage"
               /\ (/\ Len(events[r]) >= 2
                   /\ events[r][Len(events[r]) - 1].type = "text") =>
                     fs[n - 2].event = "content_block_stop"
               /\ ended[r] = 1

\* A finished run whose text block was still open when the usage chunk came.
C9_Witness ==
  \E r \in Req :
    /\ api[r] = "anthropic" /\ pc[r] = "done"
    /\ Len(events[r]) = 3
    /\ events[r][1].type = "tool_call" /\ events[r][2].type = "text"
    /\ frames[r][Len(frames[r]) - 2] = ContentBlockStop(1)

\* C10: message_delta carries stop_reason "tool_use" exactly when a tool_call
\* chunk was handled during the run, else "end_turn", and its
\* usage.output_tokens is the outputTokens of the run's usage chunk.
C10_StopReasonAndUsage ==
  \A r \in Req :
    (api[r] = "anthropic" /\ pc[r] = "done") =>
      LET md == frames[r][Len(frames[r]) - 1]
      IN  /\ md.event = "message_delta"
          /\ md.data.delta.stop_reason =
               (IF ToolCallEvents(r) # {} THEN "tool_use" ELSE "end_turn")
          /\ md.data.usage.output_tokens = Last(events[r]).outputTokens

\* A finished run with a tool call followed by text, and a non-zero count.
C10_Witness ==
  \E r \in Req :
    /\ api[r] = "anthropic" /\ pc[r] = "done"
    /\ Len(events[r]) = 3
    /\ events[r][1].type = "tool_call" /\ events[r][2].type = "text"
    /\ Last(events[r]).outputTokens = 1
    /\ frames[r][Len(frames[r]) - 1] = MessageDelta("tool_use", 1)

\* The formatter alone does what C7 describes when it is handed tool_call
\* chunks: n tool_call chunks and the usage chunk give message_start, n
\* blocks of three frames at indices 0..n-1, message_delta("tool_use"),
\* message_stop (SpecFmt).
ToolCallChunksOnlyFrames ==
  \A r \in Req :
    (/\ api[r] = "anthropic" /\ pc[r] = "done"
     /\ Len(events[r]) >= 2
     /\ \A i \in 1..(Len(events[r]) - 1) : events[r][i].type = "tool_call") =>
      LET n == Len(events[r]) - 1
          fs == frames[r]
      IN  /\ Len(fs) = 3 * n + 3
          /\ fs[1] = MessageStart
          /\ \A k \in 1..n :
               /\ fs[3 * k - 1] =
                    ContentBlockStart(k - 1,
                      [type |-> "tool_use", id |-> events[r][k].id,
                       name |-> events[r][k].name, input |-> EmptyObject])
               /\ fs[3 * k] =
                    ContentBlockDelta(k - 1,
                      [type |-> "input_json_delta",
                       partial_json |-> JSONstringify(events[r][k].arguments)])
               /\ fs[3 * k + 1] = ContentBlockStop(k - 1)
          /\ fs[3 * n + 2] =
               MessageDelta("tool_use", Last(events[r]).outputTokens)
          /\ fs[3 * n + 3] = MessageStop

-----------------------------------------------------------------------------
(* Claims about a request served end to end, under Spec.                   *)

\* C2: once the client has closed the connection, the formatter writes no
\* further frame for it and the run does not complete normally (it is
\* cancelled; the terminal frames are not sent).
C2_NoFrameAfterClose ==
  \A r \in Req :
    clientClosed[r] => Len(frames[r]) = closedAt[r] /\ pc[r] # "done"

C4_FirstChunkRole ==
  \A r \in Req :
    api[r] = "openai" =>
      LET fs == frames[r]
          chunks == {i \in DOMAIN fs : IsChunk(fs[i])}
      IN  \A i \in chunks :
            ("role" \in DOMAIN fs[i].data.choices[1].delta)
              <=> (\A j \in chunks : i <= j)

\* C7: a model response of n >= 1 well-formed tool calls and no text is
\* streamed as message_start, n tool_use blocks of three frames at indices
\* 0..n-1, message_delta with stop_reason "tool_use", message_stop.
C7_ToolCallsOnlyStream ==
  \A r \in Req :
    (/\ api[r] = "anthropic" /\ pc[r] = "done"
     /\ lmParts[r] # << >>
     /\ \A i \in DOMAIN lmParts[r] :
          WellFormedToolCall(lmParts[r][i])) =>
      LET n == Len(lmParts[r])
          fs == frames[r]
      IN  /\ Len(fs) = 3 * n + 3
          /\ fs[1] = MessageStart
          /\ \A k \in 1..n :
               /\ fs[3 * k - 1] =
                    ContentBlockStart(k - 1,
                      [type |-> "tool_use", id |-> lmParts[r][k].callId,
                       name |-> lmParts[r][k].name, input |-> EmptyObject])
               /\ fs[3 * k] =
                    ContentBlockDelta(k - 1,
                      [type |-> "input_json_delta",
                       partial_json |-> JSONstringify(lmParts[r][k].input)])
               /\ fs[3 * k + 1] = ContentBlockStop(k - 1)
          /\ fs[3 * n + 2].event = "message_delta"
          /\ fs[3 * n + 2].data.delta.stop_reason = "tool_use"
          /\ fs[3 * n + 3] = MessageStop

\* C8: a run with no text and no tool call is streamed by the Anthropic
\* formatters as exactly message_start, message_delta("end_turn"),
\* message_stop: no content block is opened.
C8_NoBlockWithoutText ==
  \A r \in Req :
    (/\ api[r] \in {"anthropic", "anthropic_text"} /\ pc[r] = "done"
     /\ TextEvents(r) = {} /\ ToolCallEvents(r) = {}) =>
      LET fs == frames[r]
      IN  /\ Len(fs) = 3
          /\ fs[1] = MessageStart
          /\ fs[2] = MessageDelta("end_turn", Last(events[r]).outputTokens)
          /\ fs[3] = MessageStop

-----------------------------------------------------------------------------
(* Claims about two requests on the one handler, under SpecConc.           *)

\* C1: a run in flight is never cancelled by another request's
\* createMessage, and the usage it reports is what it reports alone: the sum
\* of its messages' counts and the count of its accumulated text.
C1_RunsIsolated ==
  \A r \in Req :
    /\ pc[r] \in {"countInput", "sendRequest", "stream", "countOutput"} =>
         r \notin cancelled
    /\ pc[r] = "done" =>
         Last(events[r]) =
           UsageChunk(CHOOSE n \in InputTokenSums(messages[r], FALSE) : TRUE,
                      LmCountTokens(run[r].accumulatedText))

-----------------------------------------------------------------------------
(* Claims about the OpenAI streaming formatter, under SpecFmt.             *)

\* The delta and finish_reason of a chat-completion chunk frame.
Delta(f) == f.data.choices[1].delta

FinishReason(f) == f.data.choices[1].finish_reason

\* The positions of the chunks that carry a tool_calls delta.
ToolCallFrames(fs) ==
  {i \in DOMAIN fs : IsChunk(fs[i]) /\ "tool_calls" \in DOMAIN Delta(fs[i])}

\* C11: an OpenAI run that ends normally writes exactly one chunk with an
\* empty delta and a finish_reason, "tool_calls" iff a tool call was seen,
\* else "stop"; it comes after every other chunk and is followed by [DONE],
\* the last frame, and the connection is closed once. Until then no chunk
\* has a finish_reason and no [DONE] is written.
C11_FinalChunkThenDone ==
  \A r \in Req :
    api[r] = "openai" =>
      LET fs == frames[r]
          n == Len(fs)
      IN  /\ pc[r] = "done" =>
               /\ n >= 2
               /\ fs[n] = OpenAIDone
               /\ fs[n - 1] =
                    ChatCompletionChunk(EmptyObject,
                      IF ToolCallEvents(r) # {} THEN "tool_calls" ELSE "stop")
               /\ \A i \in 1..(n - 2) :
                    /\ IsChunk(fs[i])
                    /\ FinishReason(fs[i]) = NULL
                    /\ Delta(fs[i]) # EmptyObject
               /\ ended[r] = 1
          /\ pc[r] # "done" =>
               \A i \in 1..n :
                 /\ fs[i] # OpenAIDone
                 /\ IsChunk(fs[i]) => FinishReason(fs[i]) = NULL

\* A finished OpenAI run with text and a tool call.
C11_Witness ==
  \E r \in Req :
    /\ api[r] = "openai" /\ pc[r] = "done"
    /\ ToolCallEvents(r) # {} /\ TextEvents(r) # {}
    /\ Last(frames[r]) = OpenAIDone

\* C12: the k-th tool-call chunk of an OpenAI stream carries
\* tool_calls[0].index = k-1, whatever text chunks lie between.
C12_ToolCallIndex ==
  \A r \in Req :
    api[r] = "openai" =>
      LET fs == frames[r]
          tcs == ToolCallFrames(fs)
      IN  /\ Cardinality(tcs) = Cardinality(ToolCallEvents(r))
          /\ \A i \in tcs :
               Delta(fs[i]).tool_calls[1].index =
                 Cardinality({j \in tcs : j < i})

\* Two tool calls with a text delta between them.
C12_Witness ==
  \E r \in Req :
    /\ api[r] = "openai"
    /\ Len(events[r]) >= 3
    /\ events[r][1].type = "tool_call"
    /\ events[r][2].type = "text"
    /\ events[r][3].type = "tool_call"
    /\ Cardinality(ToolCallFrames(frames[r])) = 2

\* C13 as stated: a finished OpenAI run with t text deltas and c tool calls
\* writes exactly t + c + 1 chunks.
C13_ChunkCount ==
  \A r \in Req :
    (api[r] = "openai" /\ pc[r] = "done") =>
      Cardinality({i \in DOMAIN frames[r] : IsChunk(frames[r][i])}) =
        Cardinality(TextEvents(r)) + Cardinality(ToolCallEvents(r)) + 1

\* C13 as the code has it: one chunk per text delta and per tool call, in
\* the order of the events, and one final chunk; a run whose first event is
\* a tool call writes one more chunk before them, which carries the role
\* alone.
C13_ChunkCountWithRoleChunk ==
  \A r \in Req :
    (api[r] = "openai" /\ pc[r] = "done") =>
      LET fs == frames[r]
          es == events[r]
          role == IF es[1].type = "tool_call" THEN 1 ELSE 0
      IN  /\ Len(fs) = Len(es) + role + 1
          /\ role = 1 => fs[1] = ChatCompletionChunk([role |-> "assistant"], NULL)
          /\ \A k \in 1..(Len(es) - 1) :
               LET d == Delta(fs[k + role])
               IN  \/ /\ es[k].type = "text"
                      /\ "content" \in DOMAIN d
                      /\ d.content = es[k].text
                   \/ /\ es[k].type = "tool_call"
                      /\ "tool_calls" \in DOMAIN d
                      /\ d.tool_calls[1].id = es[k].id
          /\ IsChunk(fs[Len(es) + role])
          /\ Cardinality({i \in DOMAIN fs : IsChunk(fs[i])}) = Len(es) + role

\* A finished run that began with a tool call and also carried text.
C13_Witness ==
  \E r \in Req :
    /\ api[r] = "openai" /\ pc[r] = "done"
    /\ events[r][1].type = "tool_call"
    /\ TextEvents(r) # {}
    /\ Len(frames[r]) = Len(events[r]) + 2

-----------------------------------------------------------------------------
(* Claims about the non-streaming formatters, under SpecJson, and about    *)
(* their agreement with the streaming formatters, under SpecFmt.           *)

\* The texts of the text chunks of a run, concatenated in order.
RECURSIVE EventText(_)
EventText(es) ==
  IF es = << >> THEN ""
  ELSE (IF Head(es).type = "text" THEN Head(es).text ELSE "")
       \o EventText(Tail(es))

\* The tool_call chunks of a run, in order.
EventToolCalls(es) == SelectSeq(es, LAMBDA e : e.type = "tool_call")

\* The body of the response sent for a request.
ResponseBody(r) == Last(frames[r]).body

\* C14: a run that ends with the usage chunk (in, out) is reported as
\* prompt_tokens = in, completion_tokens = out, total_tokens = in + out by
\* the OpenAI response and as input_tokens = in, output_tokens = out by the
\* Anthropic response.
C14_UsageParity ==
  \A r \in Req :
    (pc[r] = "done" /\ api[r] \in {"openai_json", "anthropic_json"}) =>
      LET u == Last(events[r])
          usage == ResponseBody(r).usage
      IN  IF api[r] = "openai_json"
          THEN usage = [prompt_tokens |-> u.inputTokens,
                        completion_tokens |-> u.outputTokens,
                        total_tokens |-> u.inputTokens + u.outputTokens]
          ELSE usage = [input_tokens |-> u.inputTokens,
                        output_tokens |-> u.outputTokens]

\* An OpenAI response for a run whose two counts differ.
C14_Witness ==
  \E r \in Req :
    /\ pc[r] = "done" /\ api[r] = "openai_json"
    /\ Len(events[r]) >= 2
    /\ Last(events[r]).inputTokens # Last(events[r]).outputTokens
    /\ ResponseBody(r).usage.total_tokens = 6

\* The text a frame of a stream carries.
FrameText(f) ==
  IF IsChunk(f)
  THEN (IF "content" \in DOMAIN Delta(f) THEN Delta(f).content ELSE "")
  ELSE IF f.event = "content_block_delta" /\ f.data.delta.type = "text_delta"
       THEN f.data.delta.text
       ELSE ""

RECURSIVE StreamedText(_)
StreamedText(fs) ==
  IF fs = << >> THEN "" ELSE FrameText(Head(fs)) \o StreamedText(Tail(fs))

\* The tool calls a stream carries, in order, as (id, name, JSON arguments).
StreamedToolCalls(fs) ==
  LET IsCall(f) ==
        \/ IsChunk(f) /\ "tool_calls" \in DOMAIN Delta(f)
        \/ f.event = "content_block_start"
             /\ f.data.content_block.type = "tool_use"
      calls == SelectSeq(fs, IsCall)
      args(i) ==
        \* the input_json_delta that follows the start of a tool_use block
        LET k == CHOOSE k \in DOMAIN fs :
                   /\ fs[k] = calls[i]
                   /\ Cardinality({j \in 1..k : IsCall(fs[j])}) = i
        IN  fs[k + 1].data.delta.partial_json
  IN  [i \in DOMAIN calls |->
         IF IsChunk(calls[i])
         THEN [id |-> Delta(calls[i]).tool_calls[1].id,
               name |-> Delta(calls[i]).tool_calls[1].function.name,
               arguments |-> Delta(calls[i]).tool_calls[1].function.arguments]
         ELSE [id |-> calls[i].data.content_block.id,
               name |-> calls[i].data.content_block.name,
               arguments |-> args(i)]]

\* The text and the tool calls of a non-streaming response body.
ResponseText(a, body) ==
  IF a = "openai_json"
  THEN (IF body.choices[1].message.content = NULL THEN ""
        ELSE body.choices[1].message.content)
  ELSE LET texts == SelectSeq(body.content, LAMBDA b : b.type = "text")
       IN  IF texts = << >> THEN "" ELSE texts[1].text

ResponseToolCalls(a, body) ==
  IF a = "openai_json"
  THEN (IF "tool_calls" \in DOMAIN body.choices[1].message
        THEN [i \in DOMAIN body.choices[1].message.tool_calls |->
                LET tc == body.choices[1].message.tool_calls[i]
                IN  [id |-> tc.id, name |-> tc.function.name,
                     arguments |-> tc.function.arguments]]
        ELSE << >>)
  ELSE LET uses == SelectSeq(body.content, LAMBDA b : b.type = "tool_use")
       IN  [i \in DOMAIN uses |->
              [id |-> uses[i].id, name |-> uses[i].name,
               arguments |-> JSONstringify(uses[i].input)]]

\* The non-streaming formatter of a streaming formatter's protocol.
NonStreamingOf(a) == IF a = "openai" THEN "openai_json" ELSE "anthropic_json"

\* C15: for one backend run, the text of the streamed frames, concatenated,
\* is the text of the non-streaming response, and the streamed tool calls
\* are the tool calls of the non-streaming response, in the same order, for
\* the OpenAI and the Anthropic protocol.
C15_StreamingEquivalence ==
  \A r \in Req :
    (pc[r] = "done" /\ api[r] \in {"openai", "anthropic"}) =>
      LET a == NonStreamingOf(api[r])
          body == Response(a, CollectAll(a, CollectInit(a), events[r]))
      IN  /\ StreamedText(frames[r]) = ResponseText(a, body)
          /\ StreamedToolCalls(frames[r]) = ResponseToolCalls(a, body)

\* A run with two text deltas around a tool call.
C15_Witness ==
  \E r \in Req :
    /\ pc[r] = "done" /\ api[r] = "openai"
    /\ Len(events[r]) = 4
    /\ events[r][1] = TextChunk("Hi")
    /\ events[r][2].type = "tool_call"
    /\ events[r][3] = TextChunk("Hi")
    /\ StreamedText(frames[r]) = "HiHi"
    /\ Len(StreamedToolCalls(frames[r])) = 1

\* C16: the Anthropic non-streaming content is one text block with the
\* concatenated text, present only if the text is non-empty, then one
\* tool_use block per tool call in order; stop_reason is "tool_use" iff
\* there was a tool call, else "end_turn".
C16_AnthropicContent ==
  \A r \in Req :
    (pc[r] = "done" /\ api[r] \in {"anthropic_json", "anthropic_text_json"}) =>
      LET text == EventText(events[r])
          calls == EventToolCalls(events[r])
          body == ResponseBody(r)
      IN  /\ body.content =
               (IF text # "" THEN << [type |-> "text", text |-> text] >>
                ELSE << >>)
               \o [i \in DOMAIN calls |->
                     [type |-> "tool_use", id |-> calls[i].id,
                      name |-> calls[i].name, input |-> calls[i].arguments]]
          /\ body.stop_reason =
               IF calls # << >> THEN "tool_use" ELSE "end_turn"

\* The handleMessages that collects tool calls builds the content C16
\* describes.
AnthropicContentWithToolUse ==
  \A r \in Req :
    (pc[r] = "done" /\ api[r] = "anthropic_json") =>
      LET text == EventText(events[r])
          calls == EventToolCalls(events[r])
          body == ResponseBody(r)
      IN  /\ body.content =
               (IF text # "" THEN << [type |-> "text", text |-> text] >>
                ELSE << >>)
               \o [i \in DOMAIN calls |->
                     [type |-> "tool_use", id |-> calls[i].id,
                      name |-> calls[i].name, input |-> calls[i].arguments]]
          /\ body.stop_reason =
               IF calls # << >> THEN "tool_use" ELSE "end_turn"

\* C17: the OpenAI non-streaming message has content = the concatenated
\* text (null when there is none), tool_calls = every tool call in order
\* with its arguments as a JSON string, present only when there is a call,
\* and finish_reason "tool_calls" iff there was a call, else "stop".
C17_OpenAIMessage ==
  \A r \in Req :
    (pc[r] = "done" /\ api[r] = "openai_json") =>
      LET text == EventText(events[r])
          calls == EventToolCalls(events[r])
          choice == ResponseBody(r).choices[1]
      IN  /\ choice.message.content = (IF text = "" THEN NULL ELSE text)
          /\ ("tool_calls" \in DOMAIN choice.message) <=> calls # << >>
          /\ calls # << >> =>
               choice.message.tool_calls =
                 [i \in DOMAIN calls |->
                    [id |-> calls[i].id, type |-> "function",
                     function |->
                       [name |-> calls[i].name,
                        arguments |-> JSONstringify(calls[i].arguments)]]]
          /\ choice.finish_reason =
               IF calls # << >> THEN "tool_calls" ELSE "stop"

\* A response with text and two tool calls.
C17_Witness ==
  \E r \in Req :
    /\ pc[r] = "done" /\ api[r] = "openai_json"
    /\ EventText(events[r]) = "Hi"
    /\ Len(EventToolCalls(events[r])) = 2
    /\ ResponseBody(r).choices[1].finish_reason = "tool_calls"

NonStreamingErrorShape ==
  \A r \in Req :
    (api[r] \in NonStreamingApis /\ pc[r] = "failed") =>
      /\ Len(frames[r]) <= 1
      /\ \A i \in DOMAIN frames[r] :
           frames[r][i] = errorHandler(errlog[r][1], RoutePath(api[r]))

-----------------------------------------------------------------------------
(* Claims about the transport, under SpecTransport.                        *)

\* C19: the formatter takes no backend event while a frame it wrote is
\* still unsent, so at most one written frame is pending on a connection.
C19_OnePendingFrame ==
  \A r \in Req : Len(frames[r]) - flushed[r] <= 1

-----------------------------------------------------------------------------
(* Claims about the token counts of a run, under Spec.                     *)

\* The sum of a sequence of counts.
RECURSIVE TotalOf(_)
TotalOf(counts) ==
  IF counts = << >> THEN 0
  ELSE counts[Len(counts)] + TotalOf(SubSeq(counts, 1, Len(counts) - 1))

-----------------------------------------------------------------------------
(* The usage event of a run.                                               *)

\* The positions of the usage events among the events of a run.
UsageEvents(es) == {i \in 1..Len(es) : es[i].type = "usage"}

\* C21: a run that completes without failure has yielded exactly one usage
\* event, and it is the last event of the run; a run that failed has yielded
\* no usage event; and a run still under way has yielded none yet.
C21_OneUsageLast ==
  \A r \in Req :
    /\ pc[r] = "done" =>
         /\ events[r] # << >>
         /\ UsageEvents(events[r]) = {Len(events[r])}
    /\ pc[r] # "done" => UsageEvents(events[r]) = {}

\* A run that yielded a text event and then completed, its usage event last.
C21_Witness ==
  \E r \in Req :
    /\ pc[r] = "done"
    /\ Len(events[r]) >= 2
    /\ events[r][1].type = "text"
    /\ Last(events[r]).type = "usage"

-----------------------------------------------------------------------------
(* Tool-call parts of the model's stream, end to end.                      *)

\* The well-formed tool-call parts of a stream, in order.
WellFormedToolCalls(parts) == SelectSeq(parts, WellFormedToolCall)

IsToolCallEvent(e) == e.type = "tool_call"

\* C22: the tool-call events handed to the formatter are, in order, the
\* well-formed tool-call parts of the model's stream, each with its id, name
\* and whole arguments object, and none of them is yielded as text; a
\* finished run with such a part ends with finish_reason "tool_calls"
\* (OpenAI) or stop_reason "tool_use" (Anthropic).
C22_ToolCallDelivered ==
  \A r \in Req :
    LET parts == WellFormedToolCalls(lmParts[r])
        calls == SelectSeq(events[r], IsToolCallEvent)
    IN  /\ Len(calls) = Len(parts)
        /\ \A i \in DOMAIN parts :
             calls[i] = ToolCallChunk(parts[i].callId, parts[i].name,
                                      parts[i].input)
        /\ \A i \in DOMAIN events[r] :
             events[r][i].type = "text" =>
               \A j \in DOMAIN parts : events[r][i].text # ToolCallText(parts[j])
        /\ (pc[r] = "done" /\ parts # << >>) =>
             LET f == frames[r][Len(frames[r]) - 1]
             IN  /\ api[r] = "openai" => FinishReason(f) = "tool_calls"
                 /\ api[r] = "anthropic" =>
                      f.data.delta.stop_reason = "tool_use"

-----------------------------------------------------------------------------
(* The inbound adapters: convertToVsCodeLmMessages of the OpenAI handler   *)
(* and of the Anthropic handler. A wire value that is a string or an array *)
(* carries its JavaScript type as a tag.                                   *)

\* Bound: how many messages a wire payload carries at most.
MaxMessages == 2

\* Bound: how many times an adapter is called on one payload.
MaxRuns == 2

StringValue(s) == [type |-> "string", value |-> s]

ArrayValue(items) == [type |-> "array", items |-> items]

\* Array.prototype.join over strings.
RECURSIVE Join(_, _)
Join(strs, sep) ==
  IF strs = << >> THEN ""
  ELSE IF Len(strs) = 1 THEN strs[1]
       ELSE strs[1] \o sep \o Join(Tail(strs), sep)

\* JSON.parse of a tool call's arguments string: the texts that decode, and
\* what they decode to. Any other text makes JSON.parse throw.
JSONparses(s) == \E o \in ArgObjects : JSONstringify(o) = s

JSONparse(s) == CHOOSE o \in ArgObjects : JSONstringify(o) = s

\* new vscode.LanguageModelToolResultPart(callId, [new LanguageModelTextPart(text)]).
LmToolResultPart(callId, text) ==
  [kind |-> "tool_result", callId |-> callId, content |-> << LmTextPart(text) >>]

\* new vscode.LanguageModelChatMessage(role, parts).
LmMessage(role, parts) == [role |-> role, content |-> parts]

\* --- OpenAI -------------------------------------------------------------

\* A ChatMessage; tool_call_id is NULL and tool_calls is empty when absent.
ChatMessage(role, content, toolCallId, toolCalls) ==
  [role |-> role, content |-> content, tool_call_id |-> toolCallId,
   tool_calls |-> toolCalls]

\* A ContentPart of a multimodal message.
TextPart(text) == [type |-> "text", text |-> text]

ImagePart == [type |-> "image_url"]

\* A ToolCall of an assistant message, its arguments a JSON text.
WireToolCall(id, name, arguments) ==
  [id |-> id, name |-> name, arguments |-> arguments]

\* The role switch with system falling through to the default.
OpenAIRoleSystemAsUser(role) == IF role = "assistant" THEN "assistant" ELSE "user"

\* The role switch: system and assistant, then user, tool and the default.
OpenAIRole(role) ==
  IF role \in {"system", "assistant"} THEN "assistant" ELSE "user"

\* JavaScript truthiness of a message content: every array is truthy.
ContentTruthy(content) ==
  CASE content.type = "string" -> content.value # ""
    [] content.type = "array" -> TRUE
    [] OTHER -> FALSE

\* JSON.stringify of one ContentPart.
PartJson(part) ==
  IF part.type = "text"
  THEN "{\"type\":\"text\",\"text\":\"" \o part.text \o "\"}"
  ELSE "{\"type\":\"image_url\"}"

\* typeof content === 'string' ? content : JSON.stringify(content).
ToolResultText(content) ==
  IF content.type = "string" THEN content.value
  ELSE "[" \o Join([i \in DOMAIN content.items |-> PartJson(content.items[i])],
                   ",") \o "]"

\* The condition of the tool-result branch.
IsToolResult(message) ==
  /\ message.role = "tool"
  /\ message.tool_call_id \notin {NULL, ""}
  /\ ContentTruthy(message.content)

IsNonEmptyText(part) == part.type = "text" /\ part.text # ""

\* textContent: the string, or the non-empty text parts joined by "\n".
OpenAITextContent(content) ==
  CASE content.type = "string" -> content.value
    [] content.type = "array" ->
         LET texts == SelectSeq(content.items, IsNonEmptyText)
         IN  Join([i \in DOMAIN texts |-> texts[i].text], "\n")
    [] OTHER -> ""

\* The tool-result part of a tool message, or else the text part.
OpenAIContentParts(message) ==
  IF IsToolResult(message)
  THEN << LmToolResultPart(message.tool_call_id,
                           ToolResultText(message.content)) >>
  ELSE IF OpenAITextContent(message.content) # ""
       THEN << LmTextPart(OpenAITextContent(message.content)) >>
       ELSE << >>

\* OpenAIToolCallParts that gives up at the first entry that fails to parse.
RECURSIVE OpenAIToolCallPartsUntilFailure(_)
OpenAIToolCallPartsUntilFailure(toolCalls) ==
  IF toolCalls = << >> \/ ~JSONparses(Head(toolCalls).arguments) THEN << >>
  ELSE << LmToolCallPart(Head(toolCalls).id, Head(toolCalls).name,
                         JSONparse(Head(toolCalls).arguments)) >>
       \o OpenAIToolCallPartsUntilFailure(Tail(toolCalls))

\* The loop over message.tool_calls: one part per entry whose arguments
\* parse; an entry whose JSON.parse throws is caught and skipped.
RECURSIVE OpenAIToolCallParts(_)
OpenAIToolCallParts(toolCalls) ==
  IF toolCalls = << >> THEN << >>
  ELSE (IF JSONparses(Head(toolCalls).arguments)
        THEN << LmToolCallPart(Head(toolCalls).id, Head(toolCalls).name,
                               JSONparse(Head(toolCalls).arguments)) >>
        ELSE << >>)
       \o OpenAIToolCallParts(Tail(toolCalls))

\* The ids logger.warn is called with in that loop.
RECURSIVE OpenAIToolCallWarnings(_)
OpenAIToolCallWarnings(toolCalls) ==
  IF toolCalls = << >> THEN << >>
  ELSE (IF JSONparses(Head(toolCalls).arguments) THEN << >>
        ELSE << Head(toolCalls).id >>)
       \o OpenAIToolCallWarnings(Tail(toolCalls))

\* contentParts of one message at the end of the loop body.
OpenAIMessageParts(message) ==
  OpenAIContentParts(message) \o OpenAIToolCallParts(message.tool_calls)

\* convertToVsCodeLmMessages (OpenAI): a message is pushed when it has parts.
RECURSIVE OpenAIConvertToVsCodeLmMessages(_)
OpenAIConvertToVsCodeLmMessages(msgs) ==
  IF msgs = << >> THEN << >>
  ELSE (IF OpenAIMessageParts(Head(msgs)) # << >>
        THEN << LmMessage(OpenAIRole(Head(msgs).role),
                          OpenAIMessageParts(Head(msgs))) >>
        ELSE << >>)
       \o OpenAIConvertToVsCodeLmMessages(Tail(msgs))

RECURSIVE OpenAIWarnings(_)
OpenAIWarnings(msgs) ==
  IF msgs = << >> THEN << >>
  ELSE OpenAIToolCallWarnings(Head(msgs).tool_calls)
       \o OpenAIWarnings(Tail(msgs))

\* --- Anthropic ----------------------------------------------------------

TextBlock(text) == [type |-> "text", text |-> text]

ImageBlock == [type |-> "image"]

ToolUseBlock(id, name, input) ==
  [type |-> "tool_use", id |-> id, name |-> name, input |-> input]

ToolResultBlock(toolUseId, content) ==
  [type |-> "tool_result", tool_use_id |-> toolUseId, content |-> content]

AnthropicMessage(role, content) == [role |-> role, content |-> content]

\* extractSystemPrompt: '' when absent, the string, or the blocks' texts
\* joined by "\n".
extractSystemPrompt(system) ==
  CASE system.type = "string" -> system.value
    [] system.type = "array" ->
         Join([i \in DOMAIN system.items |-> system.items[i].text], "\n")
    [] OTHER -> ""

\* The system message pushed first regardless of the prompt.
SystemMessagesAlways(system) ==
  << LmMessage("assistant", << LmTextPart(extractSystemPrompt(system)) >>) >>

\* The system message pushed first, if the prompt is not empty. The message
\* is built from the string, which LanguageModelChatMessage keeps as one
\* text part.
SystemMessages(system) ==
  IF extractSystemPrompt(system) # ""
  THEN << LmMessage("assistant", << LmTextPart(extractSystemPrompt(system)) >>) >>
  ELSE << >>

AnthropicRole(role) == IF role = "assistant" THEN "assistant" ELSE "user"

\* resultContent of a tool_result block: the string, or every block mapped
\* to its text ('' for a block that is not text) and joined by "\n".
ToolResultContent(content) ==
  IF content.type = "string" THEN content.value
  ELSE Join([i \in DOMAIN content.items |->
               IF content.items[i].type = "text" THEN content.items[i].text
               ELSE ""], "\n")

\* The part a content block becomes, if any.
BlockParts(block) ==
  CASE block.type = "text" -> << LmTextPart(block.text) >>
    [] block.type = "tool_use" ->
         << LmToolCallPart(block.id, block.name, block.input) >>
    [] block.type = "tool_result" ->
         << LmToolResultPart(block.tool_use_id,
                             ToolResultContent(block.content)) >>
    [] OTHER -> << >>

RECURSIVE BlocksParts(_)
BlocksParts(blocks) ==
  IF blocks = << >> THEN << >>
  ELSE BlockParts(Head(blocks)) \o BlocksParts(Tail(blocks))

\* contentParts of one message: a string content is one text part whatever
\* the string.
AnthropicMessageParts(message) ==
  IF message.content.type = "string"
  THEN << LmTextPart(message.content.value) >>
  ELSE BlocksParts(message.content.items)

RECURSIVE AnthropicConvertMessages(_)
AnthropicConvertMessages(msgs) ==
  IF msgs = << >> THEN << >>
  ELSE (IF AnthropicMessageParts(Head(msgs)) # << >>
        THEN << LmMessage(AnthropicRole(Head(msgs).role),
                          AnthropicMessageParts(Head(msgs))) >>
        ELSE << >>)
       \o AnthropicConvertMessages(Tail(msgs))

\* convertToVsCodeLmMessages (Anthropic).
AnthropicConvertToVsCodeLmMessages(msgs, system) ==
  SystemMessages(system) \o AnthropicConvertMessages(msgs)

\* --- The payloads the adapters are applied to ---------------------------

\* Arguments texts of wire tool calls: one that parses, one that does not.
GoodArguments == JSONstringify([location |-> "SF"])

BadArguments == "{\"location\":"

OpenAIMessages ==
  { ChatMessage("system", StringValue("Be brief"), NULL, << >>),
    ChatMessage("user", StringValue("Hi"), NULL, << >>),
    ChatMessage("user", StringValue(""), NULL, << >>),
    ChatMessage("user",
                ArrayValue(<< TextPart("a"), ImagePart, TextPart("b") >>),
                NULL, << >>),
    ChatMessage("user", ArrayValue(<< ImagePart >>), NULL, << >>),
    ChatMessage("assistant", StringValue("Sure"), NULL,
                << WireToolCall("t1", "get_weather", GoodArguments) >>),
    ChatMessage("assistant", StringValue(""), NULL,
                << WireToolCall("t1", "get_weather", GoodArguments),
                   WireToolCall("t2", "get_time", BadArguments),
                   WireToolCall("t3", "get_weather",
                                JSONstringify([location |-> "NYC", unit |-> "C"])) >>),
    ChatMessage("assistant", StringValue(""), NULL,
                << WireToolCall("t2", "get_time", BadArguments) >>),
    ChatMessage("tool", StringValue("72F"), "t1", << >>),
    ChatMessage("tool", StringValue(""), "t1", << >>),
    ChatMessage("tool", ArrayValue(<< TextPart("72F") >>), "t1", << >>),
    ChatMessage("tool", StringValue("72F"), NULL, << >>) }

AnthropicSystems ==
  { Undefined, StringValue(""), StringValue("Be brief"),
    ArrayValue(<< TextBlock("Be brief"), TextBlock("Be kind") >>),
    ArrayValue(<< >>) }

AnthropicMessages ==
  { AnthropicMessage("user", StringValue("Hi")),
    AnthropicMessage("user", StringValue("")),
    AnthropicMessage("assistant",
      ArrayValue(<< TextBlock("Sure"),
                    ToolUseBlock("t1", "get_weather", [location |-> "SF"]) >>)),
    AnthropicMessage("user",
      ArrayValue(<< ToolResultBlock("t1", StringValue("72F")) >>)),
    AnthropicMessage("user",
      ArrayValue(<< ToolResultBlock("t1",
                      ArrayValue(<< TextBlock("a"), TextBlock("b") >>)) >>)),
    AnthropicMessage("user",
      ArrayValue(<< ToolResultBlock("t1",
                      ArrayValue(<< TextBlock("a"), ImageBlock,
                                    TextBlock("b") >>)) >>)),
    AnthropicMessage("user", ArrayValue(<< ImageBlock >>)),
    AnthropicMessage("user", ArrayValue(<< >>)) }

\* The non-empty sequences of at most MaxMessages elements of S.
SeqsUpTo(S) == UNION {[1..n -> S] : n \in 1..MaxMessages}

\* The request bodies: validateOpenAIRequest and validateAnthropicRequest
\* let through a non-empty messages array.
OpenAIPayloads ==
  {[api |-> "openai", messages |-> msgs] : msgs \in SeqsUpTo(OpenAIMessages)}

AnthropicPayloads ==
  {[api |-> "anthropic", system |-> sys, messages |-> msgs] :
     sys \in AnthropicSystems, msgs \in SeqsUpTo(AnthropicMessages)}

\* An adapter that shifts the first message off the array it is given.
ConvertOpenAIConsuming ==
  /\ wire.api = "openai"
  /\ Len(converted) < MaxRuns
  /\ converted' = Append(converted, OpenAIConvertToVsCodeLmMessages(wire.messages))
  /\ warned' = warned \o OpenAIWarnings(wire.messages)
  /\ wire' = [wire EXCEPT !.messages = Tail(@)]
  /\ UNCHANGED << unitVars, authVars, flushed, api, messages, pc, handlerVars, run,
                  lmParts, events, fmt, frames, ended, clientClosed, closedAt,
                  errlog >>

\* A handler calls convertToVsCodeLmMessages(messages) on the request body.
ConvertOpenAI ==
  /\ wire.api = "openai"
  /\ Len(converted) < MaxRuns
  /\ converted' = Append(converted, OpenAIConvertToVsCodeLmMessages(wire.messages))
  /\ warned' = warned \o OpenAIWarnings(wire.messages)
  /\ wire' = wire
  /\ UNCHANGED << unitVars, authVars, flushed, api, messages, pc, handlerVars, run,
                  lmParts, events, fmt, frames, ended, clientClosed, closedAt,
                  errlog >>

\* A handler calls convertToVsCodeLmMessages(messages, system).
ConvertAnthropic ==
  /\ wire.api = "anthropic"
  /\ Len(converted) < MaxRuns
  /\ converted' =
       Append(converted,
              AnthropicConvertToVsCodeLmMessages(wire.messages, wire.system))
  /\ UNCHANGED << unitVars, wire, warned, authVars, flushed, api, messages, pc,
                  handlerVars, run, lmParts, events, fmt, frames, ended,
                  clientClosed, closedAt, errlog >>

\* Any payload, no request in flight.
InitAdapt ==
  /\ RequestsInit({}) /\ client = NULL
  /\ AuthOff /\ UnitsIdle
  /\ wire \in OpenAIPayloads \cup AnthropicPayloads
  /\ converted = << >>
  /\ warned = << >>

NextAdapt == ConvertOpenAI \/ ConvertAnthropic

SpecAdapt == InitAdapt /\ [][NextAdapt]_vars

-----------------------------------------------------------------------------
(* Claims about the OpenAI inbound adapter, under SpecAdapt.               *)

\* The condition under which the loop pushes a message.
OpenAIEmitted(message) == OpenAIMessageParts(message) # << >>

\* The wire messages the adapter emits a message for, in order.
OpenAIKept == SelectSeq(wire.messages, OpenAIEmitted)

\* C23: every message the OpenAI adapter emits has the unified role of the
\* wire message it came from: assistant for system and assistant, user for
\* user and tool.
C23_RoleMapping ==
  wire.api = "openai" =>
    \A k \in DOMAIN converted :
      /\ Len(converted[k]) = Len(OpenAIKept)
      /\ \A i \in DOMAIN OpenAIKept :
           /\ OpenAIKept[i].role \in {"system", "assistant"} =>
                converted[k][i].role = "assistant"
           /\ OpenAIKept[i].role \in {"user", "tool"} =>
                converted[k][i].role = "user"

\* A system message and a tool message, both emitted.
C23_Witness ==
  /\ wire.api = "openai"
  /\ converted # << >>
  /\ Len(wire.messages) = 2 /\ Len(converted[1]) = 2
  /\ wire.messages[1].role = "system" /\ converted[1][1].role = "assistant"
  /\ wire.messages[2].role = "tool" /\ converted[1][2].role = "user"

\* Where the message of wire position i lands in the adapter's result, if
\* it is emitted.
OpenAIPosition(i) == Len(SelectSeq(SubSeq(wire.messages, 1, i), OpenAIEmitted))

\* The wire positions of the messages with role tool and a tool_call_id.
ToolMessages ==
  {i \in DOMAIN wire.messages :
     /\ wire.messages[i].role = "tool"
     /\ wire.messages[i].tool_call_id # NULL}

\* The unified message of a tool message: one ToolResult part, no Text part.
ToolResultMessage(message) ==
  LmMessage("user", << LmToolResultPart(message.tool_call_id,
                                        ToolResultText(message.content)) >>)

\* C24: a message with role tool and a tool_call_id becomes a user message
\* whose only part is a ToolResult with that id and the content as a string.
C24_ToolResultMessage ==
  wire.api = "openai" =>
    \A k \in DOMAIN converted : \A i \in ToolMessages :
      /\ OpenAIPosition(i) \in DOMAIN converted[k]
      /\ OpenAIEmitted(wire.messages[i])
      /\ converted[k][OpenAIPosition(i)] = ToolResultMessage(wire.messages[i])

\* The same for the tool messages whose content is not the empty string.
ToolResultWithContent ==
  wire.api = "openai" =>
    \A k \in DOMAIN converted : \A i \in ToolMessages :
      ContentTruthy(wire.messages[i].content) =>
        /\ OpenAIPosition(i) \in DOMAIN converted[k]
        /\ converted[k][OpenAIPosition(i)] = ToolResultMessage(wire.messages[i])

\* A wire tool call whose arguments text decodes as JSON.
Decodes(toolCall) == JSONparses(toolCall.arguments)

\* The ToolCall parts of the entries of a tool_calls array that decode.
DecodedToolCalls(toolCalls) ==
  LET good == SelectSeq(toolCalls, Decodes)
  IN  [j \in DOMAIN good |->
         LmToolCallPart(good[j].id, good[j].name, JSONparse(good[j].arguments))]

\* C25: the parts of an assistant message with a tool_calls array are its
\* text part, if any, then one ToolCall part per entry that decodes, in
\* entry order; an entry that does not decode is logged and skipped, and the
\* messages after it are converted as usual.
C25_ToolCallsDecoded ==
  wire.api = "openai" =>
    \A k \in DOMAIN converted :
      /\ Len(converted[k]) = Len(OpenAIKept)
      /\ \A i \in DOMAIN wire.messages :
           LET m == wire.messages[i]
               expected == OpenAIContentParts(m) \o DecodedToolCalls(m.tool_calls)
           IN  (m.role = "assistant" /\ m.tool_calls # << >>) =>
                 IF expected = << >> THEN ~OpenAIEmitted(m)
                 ELSE /\ OpenAIPosition(i) \in DOMAIN converted[k]
                      /\ converted[k][OpenAIPosition(i)].content = expected

\* An assistant message whose second tool call of three does not decode,
\* followed by a user message: both siblings and the user message are there.
C25_Witness ==
  /\ wire.api = "openai"
  /\ converted # << >>
  /\ Len(wire.messages) = 2
  /\ Len(wire.messages[1].tool_calls) = 3
  /\ ~Decodes(wire.messages[1].tool_calls[2])
  /\ Len(converted[1]) = 2
  /\ Len(converted[1][1].content) = 2
  /\ converted[1][1].content[1].callId = "t1"
  /\ converted[1][1].content[2].callId = "t3"
  /\ converted[1][2] = LmMessage("user", << LmTextPart("Hi") >>)
  /\ warned = << "t2" >>

-----------------------------------------------------------------------------
(* Claims about both inbound adapters, under SpecAdapt.                    *)

\* A content with some text in it: a non-empty string, or an array with a
\* non-empty text part.
HasText(content) ==
  CASE content.type = "string" -> content.value # ""
    [] content.type = "array" ->
         \E i \in DOMAIN content.items :
           content.items[i].type = "text" /\ content.items[i].text # ""
    [] OTHER -> FALSE

\* A wire message with nothing to convert: empty content or only image
\* parts, and no tool call, tool use or tool result that can be converted.
NothingToConvert(message) ==
  IF wire.api = "openai"
  THEN /\ ~HasText(message.content)
       /\ \A j \in DOMAIN message.tool_calls : ~Decodes(message.tool_calls[j])
  ELSE /\ ~HasText(message.content)
       /\ message.content.type = "array" =>
            \A j \in DOMAIN message.content.items :
              message.content.items[j].type \in {"text", "image"}

SomethingToConvert(message) == ~NothingToConvert(message)

\* The parts the adapter of the payload's protocol builds for a message.
MessageParts(message) ==
  IF wire.api = "openai" THEN OpenAIMessageParts(message)
  ELSE AnthropicMessageParts(message)

\* How many messages the adapter puts before the conversation messages.
SystemOffset ==
  IF wire.api = "anthropic" THEN Len(SystemMessages(wire.system)) ELSE 0

\* C26: no emitted message has zero parts; the emitted conversation messages
\* are, in wire order, exactly the wire messages that have something to
\* convert, so a message with empty content, with only image parts or with
\* only undecodable tool calls is left out.
C26_NoEmptyMessage ==
  \A k \in DOMAIN converted :
    LET out == converted[k]
        kept == SelectSeq(wire.messages, SomethingToConvert)
    IN  /\ \A i \in DOMAIN out : out[i].content # << >>
        /\ Len(out) = SystemOffset + Len(kept)
        /\ \A i \in DOMAIN kept :
             out[SystemOffset + i].content = MessageParts(kept[i])

\* The adapter's own test for pushing a message.
Emitted(message) == MessageParts(message) # << >>

\* What does hold: no emitted message has zero parts, and the emitted
\* conversation messages are, in wire order, the wire messages for which
\* the adapter built at least one part (an empty text part counts).
EmittedInOrder ==
  \A k \in DOMAIN converted :
    LET out == converted[k]
        kept == SelectSeq(wire.messages, Emitted)
    IN  /\ \A i \in DOMAIN out : out[i].content # << >>
        /\ Len(out) = SystemOffset + Len(kept)
        /\ \A i \in DOMAIN kept :
             out[SystemOffset + i].content = MessageParts(kept[i])

-----------------------------------------------------------------------------
(* Claims about the Anthropic inbound adapter, under SpecAdapt.            *)

\* The text of the request's system prompt: the string, or the blocks'
\* texts with a newline between them; empty when the request has none.
SystemPromptText ==
  CASE wire.system.type = "string" -> wire.system.value
    [] wire.system.type = "array" ->
         Join([i \in DOMAIN wire.system.items |-> wire.system.items[i].text],
              "\n")
    [] OTHER -> ""

\* C27: with a system prompt the result begins with one assistant message
\* whose only part is the prompt's text, followed by the conversation
\* messages and nothing else; without one (none given, or an empty one) the
\* result is the conversation messages alone.
C27_SystemPromptFirst ==
  wire.api = "anthropic" =>
    \A k \in DOMAIN converted :
      LET out == converted[k]
          kept == SelectSeq(wire.messages, Emitted)
          n == IF SystemPromptText # "" THEN 1 ELSE 0
      IN  /\ SystemPromptText # "" =>
               /\ out # << >>
               /\ out[1] = LmMessage("assistant",
                                     << LmTextPart(SystemPromptText) >>)
          /\ Len(out) = n + Len(kept)
          /\ \A i \in DOMAIN kept :
               /\ out[n + i].content = MessageParts(kept[i])
               /\ out[n + i].role = kept[i].role

\* A prompt given as two text blocks, before one conversation message.
C27_Witness ==
  /\ wire.api = "anthropic"
  /\ converted # << >>
  /\ wire.system.type = "array" /\ Len(wire.system.items) = 2
  /\ Len(converted[1]) = 2
  /\ converted[1][1] =
       LmMessage("assistant", << LmTextPart("Be brief\nBe kind") >>)
  /\ converted[1][2] = LmMessage("user", << LmTextPart("Hi") >>)

\* Where the message of wire position i lands in the Anthropic adapter's
\* result, if it is emitted.
AnthropicPosition(i) ==
  SystemOffset + Len(SelectSeq(SubSeq(wire.messages, 1, i), Emitted))

IsTextBlock(block) == block.type = "text"

\* A content block the adapter has a branch for.
Converts(block) == block.type \in {"text", "tool_use", "tool_result"}

\* Where block j of a content array lands among the parts of its message.
PartPosition(items, j) == Len(SelectSeq(SubSeq(items, 1, j), Converts))

\* A tool_result content as one string: the string itself, or the texts of
\* its text blocks with one newline between consecutive ones.
TextBlocksJoined(content) ==
  IF content.type = "string" THEN content.value
  ELSE LET texts == SelectSeq(content.items, IsTextBlock)
       IN  Join([i \in DOMAIN texts |-> texts[i].text], "\n")

\* The tool_result blocks of the payload, as << message, block >> positions.
ToolResultBlocks ==
  UNION { { << i, j >> : j \in { j \in DOMAIN wire.messages[i].content.items :
                wire.messages[i].content.items[j].type = "tool_result" } } :
          i \in { i \in DOMAIN wire.messages :
                   wire.messages[i].content.type = "array" } }

\* C28: every tool_result block becomes a ToolResult part with the block's
\* tool_use_id whose content is the block's string, or the block's text
\* blocks joined by single newlines, other blocks adding nothing.
C28_ToolResultFlattened ==
  wire.api = "anthropic" =>
    \A k \in DOMAIN converted : \A p \in ToolResultBlocks :
      LET items == wire.messages[p[1]].content.items
          block == items[p[2]]
          parts == converted[k][AnthropicPosition(p[1])].content
      IN  parts[PartPosition(items, p[2])] =
            LmToolResultPart(block.tool_use_id, TextBlocksJoined(block.content))

\* The same for the tool_result blocks whose content has text blocks only.
ToolResultOfTextBlocks ==
  wire.api = "anthropic" =>
    \A k \in DOMAIN converted : \A p \in ToolResultBlocks :
      LET items == wire.messages[p[1]].content.items
          block == items[p[2]]
          parts == converted[k][AnthropicPosition(p[1])].content
      IN  (block.content.type = "array" =>
             \A j \in DOMAIN block.content.items :
               IsTextBlock(block.content.items[j])) =>
          parts[PartPosition(items, p[2])] =
            LmToolResultPart(block.tool_use_id, TextBlocksJoined(block.content))

-----------------------------------------------------------------------------
(* Authentication: the middleware createAuthMiddleware returns, installed  *)
(* before every route, and the routes behind it.                           *)

\* The API keys a server is configured with or a client sends.
Keys == {"secret", "wrong"}

Paths == {"/health", "/v1/chat/completions", "/v1/messages"}

\* req.path.includes('/messages').
isAnthropicEndpoint(path) == path = "/v1/messages"

\* authHeader.startsWith('Bearer ') ? authHeader.substring(7) : undefined.
BearerKey(authHeader) ==
  IF authHeader # NULL /\ \E k \in Keys \cup {""} : authHeader = "Bearer " \o k
  THEN CHOOSE k \in Keys \cup {""} : authHeader = "Bearer " \o k
  ELSE NULL

\* providedKey: x-api-key on an Anthropic path, the bearer token elsewhere.
providedKey(rq) ==
  IF isAnthropicEndpoint(rq.path) THEN rq.xApiKey
  ELSE BearerKey(rq.authorization)

\* JavaScript truthiness of a string or undefined.
Truthy(s) == s \notin {NULL, ""}

\* The 401 bodies, per protocol.
MissingKeyResponse(path) ==
  IF isAnthropicEndpoint(path)
  THEN JsonResponse(401,
         [type |-> "error",
          error |-> [type |-> "authentication_error",
                     message |-> "Missing API key. Please provide x-api-key header."]])
  ELSE JsonResponse(401,
         [error |-> [message |-> "Missing API key. Please provide Authorization: Bearer <key> header.",
                     type |-> "authentication_error",
                     code |-> "missing_api_key"]])

InvalidKeyResponse(path) ==
  IF isAnthropicEndpoint(path)
  THEN JsonResponse(401,
         [type |-> "error",
          error |-> [type |-> "authentication_error",
                     message |-> "Invalid API key."]])
  ELSE JsonResponse(401,
         [error |-> [message |-> "Invalid API key.",
                     type |-> "authentication_error",
                     code |-> "invalid_api_key"]])

\* What the middleware does with a request: call next(), or send a response.
CallNext == [next |-> TRUE]

Respond(response) == [next |-> FALSE, response |-> response]

\* The middleware function createAuthMiddleware(config) returns.
authMiddleware(cfg, rq) ==
  IF ~cfg.enableAuth THEN CallNext
  ELSE IF rq.path = "/health" THEN CallNext
  ELSE IF ~Truthy(providedKey(rq)) THEN Respond(MissingKeyResponse(rq.path))
  ELSE IF Truthy(cfg.apiKey) /\ providedKey(rq) # cfg.apiKey
       THEN Respond(InvalidKeyResponse(rq.path))
       ELSE CallNext

\* The middleware answers 401 and does not call next().
AuthReject(r) ==
  /\ pc[r] = "arrived"
  /\ ~authMiddleware(config, req[r]).next
  /\ frames' = [frames EXCEPT ![r] =
                  Append(@, authMiddleware(config, req[r]).response)]
  /\ ended' = [ended EXCEPT ![r] = @ + 1]
  /\ pc' = [pc EXCEPT ![r] = "rejected"]
  /\ UNCHANGED << unitVars, adapterVars, authVars, flushed, api, messages, handlerVars,
                  run, lmParts, events, fmt, clientClosed, closedAt, errlog >>

\* The middleware calls next(): the request goes on to the routes.
AuthPass(r) ==
  /\ pc[r] = "arrived"
  /\ authMiddleware(config, req[r]).next
  /\ pc' = [pc EXCEPT ![r] = "routing"]
  /\ UNCHANGED << unitVars, adapterVars, authVars, flushed, api, messages, handlerVars,
                  run, lmParts, events, fmt, frames, ended, clientClosed,
                  closedAt, errlog >>

\* GET /health: answered by the server itself.
HealthRoute(r) ==
  /\ pc[r] = "routing"
  /\ req[r].path = "/health"
  /\ frames' = [frames EXCEPT ![r] =
                  Append(@, JsonResponse(200, [status |-> "ok"]))]
  /\ ended' = [ended EXCEPT ![r] = @ + 1]
  /\ pc' = [pc EXCEPT ![r] = "done"]
  /\ UNCHANGED << unitVars, adapterVars, authVars, flushed, api, messages, handlerVars,
                  run, lmParts, events, fmt, clientClosed, closedAt, errlog >>

\* POST /v1/chat/completions or /v1/messages with stream set: the route
\* handler is entered; it calls the streaming formatter next.
ApiRoute(r) ==
  /\ pc[r] = "routing"
  /\ req[r].path # "/health"
  /\ pc' = [pc EXCEPT ![r] = "idle"]
  /\ UNCHANGED << unitVars, adapterVars, authVars, flushed, api, messages, handlerVars,
                  run, lmParts, events, fmt, frames, ended, clientClosed,
                  closedAt, errlog >>

\* A server with any auth configuration, and one request with any path and
\* any credential headers.
InitAuth ==
  /\ config \in [enableAuth : BOOLEAN, apiKey : {NULL, "secret"}]
  /\ req \in [Req -> [path : Paths,
                      authorization : {NULL, "secret"}
                                        \cup {"Bearer " \o k : k \in Keys},
                      xApiKey : {NULL} \cup Keys]]
  /\ req["r2"] = [path |-> "/health", authorization |-> NULL, xApiKey |-> NULL]
  /\ api = [r \in Req |-> IF isAnthropicEndpoint(req[r].path)
                          THEN "anthropic_text" ELSE "openai"]
  /\ messages = [r \in Req |-> << "Hi" >>]
  /\ pc = [r \in Req |-> IF r = "r1" THEN "arrived" ELSE "absent"]
  /\ client = "model"
  /\ currentRequestCancellation = NULL
  /\ cancelled = {}
  /\ run = [r \in Req |-> RunInit]
  /\ lmParts = [r \in Req |-> << >>]
  /\ events = [r \in Req |-> << >>]
  /\ fmt = [r \in Req |-> FormatterInit(api[r])]
  /\ frames = [r \in Req |-> << >>]
  /\ ended = [r \in Req |-> 0]
  /\ clientClosed = [r \in Req |-> FALSE]
  /\ closedAt = [r \in Req |-> 0]
  /\ errlog = [r \in Req |-> << >>]
  /\ flushed = [r \in Req |-> 0]
  /\ AdapterIdle /\ UnitsIdle

NextAuth ==
  \E r \in Req :
    \/ AuthReject(r) \/ AuthPass(r) \/ HealthRoute(r) \/ ApiRoute(r)
    \/ Start(r) \/ GetClient(r) \/ CountInput(r) \/ SendRequest(r)
    \/ LmThrow(r) \/ StreamPart(r) \/ StreamEnd(r) \/ CountOutput(r)

SpecAuth == InitAuth /\ [][NextAuth]_vars

\* The key a request carries, as the claim reads it.
CarriedKey(rq) ==
  IF isAnthropicEndpoint(rq.path) THEN rq.xApiKey
  ELSE IF rq.authorization \in {"Bearer " \o k : k \in Keys}
       THEN BearerKey(rq.authorization) ELSE NULL

\* The request is past the middleware: at the routes or further.
PastAuth(r) == pc[r] \notin {"absent", "arrived", "rejected"}

\* C30: with authentication enabled, a request for a path other than
\* /health gets past the middleware only with the configured key; without
\* it the request is answered 401 once and no route handler or language
\* model call ever runs for it.
C30_AuthRequired ==
  \A r \in Req :
    (config.enableAuth /\ req[r].path # "/health") =>
      /\ PastAuth(r) =>
           CarriedKey(req[r]) # NULL /\ CarriedKey(req[r]) = config.apiKey
      /\ pc[r] = "rejected" =>
           /\ Len(frames[r]) = 1 /\ frames[r][1].status = 401
           /\ ended[r] = 1
           /\ events[r] = << >> /\ lmParts[r] = << >> /\ run[r] = RunInit

\* The same for a server that has a key configured.
AuthRequiredWithKey ==
  Truthy(config.apiKey) => C30_AuthRequired

-----------------------------------------------------------------------------
(* Malformed parts of the model's stream.                                  *)

\* A part createMessage has a use for.
WellFormedPart(part) ==
  \/ part.kind = "text" /\ part.isString
  \/ WellFormedToolCall(part)

IsContentEvent(e) == e.type # "usage"

-----------------------------------------------------------------------------
(* The cancellation source of a run that has ended.                        *)

\* C37: once the createMessage of a request has finished, normally or with
\* a failure, the handler no longer holds the source that call created.
C37_NoSourceAfterRun ==
  \A r \in Req :
    pc[r] \in {"done", "failed"} => currentRequestCancellation # r

\* The same for the runs that failed: createMessage's catch block runs
\* ensureCleanState.
NoSourceAfterFailure ==
  \A r \in Req :
    pc[r] = "failed" => currentRequestCancellation # r

-----------------------------------------------------------------------------
(* closeSSE in the streaming formatters.                                   *)

\* C39: a streaming formatter calls res.end() exactly once on each of its
\* paths, when the generator has returned and when it has thrown, never
\* before; once it has, the formatter writes no further frame and does not
\* close again.
C39_ClosedOnce ==
  /\ [](\A r \in Req :
          /\ ended[r] <= 1
          /\ ended[r] = 1 <=> pc[r] \in {"done", "failed"})
  /\ [][\A r \in Req :
          ended[r] >= 1 => frames'[r] = frames[r] /\ ended'[r] = ended[r]]_vars

\* Both paths: a run that failed after a tool call was streamed, closed once
\* behind its error frame.
C39_Witness ==
  \E r \in Req :
    /\ pc[r] = "failed" /\ ended[r] = 1
    /\ Len(events[r]) = 2 /\ events[r][2].type = "tool_call"
    /\ IsErrorFrame(Last(frames[r]))

-----------------------------------------------------------------------------
(* VsCodeLmHandler.countTokens on its own: any argument, any state of the  *)
(* handler, any answer of the model's countTokens.                         *)

\* A JavaScript number, and the number NaN.
Number(n) == [type |-> "number", nan |-> FALSE, value |-> n]

NaN == [type |-> "number", nan |-> TRUE, value |-> 0]

\* v < 0 in JavaScript: false when v is NaN.
LessThanZero(v) == ~v.nan /\ v.value < 0

\* What countTokens can be called with: a string, or a chat message whose
\* content is a string or an array of parts.
CountedMessage(content) == [type |-> "message", content |-> content]

CountArguments ==
  { StringValue(""), StringValue("Hi"), StringValue("Be brief"),
    CountedMessage(StringValue("Hi")),
    CountedMessage(ArrayValue(<< LmTextPart("Hi"),
                                 LmToolResultPart("t1", "Sunny"),
                                 LmTextPart("!") >>)) }

\* !text.
Falsy(text) == text = StringValue("")

\* text.content.map(part => part instanceof LanguageModelTextPart
\*                          ? part.value : '').join('')
RECURSIVE PartValues(_)
PartValues(parts) ==
  IF parts = << >> THEN << >>
  ELSE << IF Head(parts).kind = "text" THEN Head(parts).value ELSE "" >>
       \o PartValues(Tail(parts))

\* The text countTokens hands to client.countTokens.
CountedContent(text) ==
  IF text.type = "string" THEN text.value
  ELSE IF text.content.type = "string" THEN text.content.value
       ELSE Join(PartValues(text.content.items), "")

\* What the model's countTokens can answer: its count, or a value that is
\* no count (a negative number, NaN, something that is no number), or a
\* rejection with a CancellationError or with another error.
Resolved(value) == [kind |-> "resolved", value |-> value]

Rejected(error) == [kind |-> "rejected", error |-> error]

BackendAnswers(content) ==
  { Resolved(Number(LmCountTokens(content))), Resolved(Number(0 - 1)),
    Resolved(NaN), Resolved(StringValue("3")), Resolved(Undefined),
    Rejected("CancellationError"), Rejected("Error") }

\* The try block after the await, and the catch block: an answer that is no
\* number or is < 0 gives 0, a rejection of either kind gives 0.
ValidatedCount(answer) ==
  IF answer.kind = "rejected" THEN Number(0)
  ELSE IF answer.value.type # "number" \/ LessThanZero(answer.value)
       THEN Number(0)
       ELSE answer.value

\* countTokens: 0 without asking the model when there is no client, no
\* cancellation source or nothing to count.
countTokens(text, answer) ==
  IF client = NULL THEN Number(0)
  ELSE IF currentRequestCancellation = NULL THEN Number(0)
  ELSE IF Falsy(text) THEN Number(0)
  ELSE ValidatedCount(answer)

\* The model is asked only past the three early returns.
NotAsked == [kind |-> "not asked"]

CountTokens ==
  /\ counting = NoCount
  /\ \E text \in CountArguments :
       \E answer \in BackendAnswers(CountedContent(text)) :
         LET asked == /\ client # NULL /\ currentRequestCancellation # NULL
                      /\ ~Falsy(text)
         IN  counting' = [called |-> TRUE, text |-> text,
                          answer |-> IF asked THEN answer ELSE NotAsked,
                          result |-> countTokens(text, answer)]
  /\ UNCHANGED << servedVars, handlerVars, failure, lifecycleVars,
                  selectionVars, pipelineVars >>

\* The caller takes the result; the next call can be observed.
CountTaken ==
  /\ counting # NoCount
  /\ counting' = NoCount
  /\ UNCHANGED << servedVars, handlerVars, failure, lifecycleVars,
                  selectionVars, pipelineVars >>

\* A request has created its cancellation source.
CountSourceCreated ==
  /\ counting = NoCount
  /\ currentRequestCancellation = NULL
  /\ \E r \in Req : currentRequestCancellation' = r
  /\ UNCHANGED << servedVars, client, cancelled, unitVars >>

\* createClient has selected a model.
CountClientSelected ==
  /\ counting = NoCount
  /\ client = NULL
  /\ client' = "model"
  /\ UNCHANGED << servedVars, currentRequestCancellation, cancelled,
                  unitVars >>

CountConfigChange ==
  /\ counting = NoCount
  /\ ConfigChange

InitCount == InitWith({}) /\ client = NULL

NextCount ==
  \/ CountTokens
  \/ CountTaken
  \/ CountSourceCreated
  \/ CountClientSelected
  \/ CountConfigChange

SpecCount == InitCount /\ [][NextCount]_vars

\* A non-negative integer.
IsCount(v) == v.type = "number" /\ ~v.nan /\ v.value \in Nat

\* C34: countTokens returns a non-negative integer whatever its argument, the
\* state of the handler and the model's answer.
C34_CountIsNatural ==
  counting.called => IsCount(counting.result)

\* The cases the handler checks for give 0: no client, no cancellation
\* source, nothing to count, a rejection, an answer that is no number, a
\* negative answer; the model's count is passed on.
CountZeroWhenChecked ==
  counting.called =>
    /\ (\/ client = NULL \/ currentRequestCancellation = NULL
        \/ Falsy(counting.text)) =>
         counting.answer = NotAsked /\ counting.result = Number(0)
    /\ counting.answer # NotAsked =>
         /\ counting.answer.kind = "rejected" => counting.result = Number(0)
         /\ (/\ counting.answer.kind = "resolved"
             /\ counting.answer.value.type # "number") =>
              counting.result = Number(0)
         /\ (/\ counting.answer.kind = "resolved"
             /\ counting.answer.value.type = "number"
             /\ ~counting.answer.value.nan) =>
              counting.result =
                IF counting.answer.value.value < 0 THEN Number(0)
                ELSE counting.answer.value

-----------------------------------------------------------------------------
(* errorHandler on its own: any error message, any path, headers sent or   *)
(* not.                                                                    *)

\* Messages of the errors that reach errorHandler: those createMessage
\* throws, and messages that pass one or several of getStatusCode's tests.
ErrorMessages ==
  { LmErrorMessage, CancelledMessage, NullTokenMessage, CreateClientMessage,
    "", "Request Timeout", "Unauthorized", "Forbidden", "Model not found",
    "Rate limit exceeded", "Invalid model", "Validation failed",
    "Request cancelled: invalid state" }

\* Paths of the requests that reach it.
ErrorPaths ==
  Paths \cup {"/v1/models", "/v1/messages/batches", "/v1/completions"}

\* errorHandler is called: it returns at once when the headers are sent.
ErrorHandlerCall ==
  /\ failure = NoFailure
  /\ \E message \in ErrorMessages, path \in ErrorPaths, headersSent \in BOOLEAN :
       failure' = [called |-> TRUE, message |-> message, path |-> path,
                   headersSent |-> headersSent,
                   written |-> IF headersSent THEN << >>
                               ELSE << errorHandler(message, path) >>]
  /\ UNCHANGED << servedVars, handlerVars, counting, lifecycleVars,
                  selectionVars, pipelineVars >>

\* The response has gone; the next call can be observed.
ErrorHandlerDone ==
  /\ failure # NoFailure
  /\ failure' = NoFailure
  /\ UNCHANGED << servedVars, handlerVars, counting, lifecycleVars,
                  selectionVars, pipelineVars >>

InitError == InitWith({})

NextError == ErrorHandlerCall \/ ErrorHandlerDone

SpecError == InitError /\ [][NextError]_vars

\* The words getStatusCode looks for that come before 'cancelled'.
EarlierWords ==
  { "unauthorized", "authentication", "forbidden", "not found", "rate limit",
    "invalid", "validation" }

MatchesEarlier(message) ==
  \E w \in EarlierWords : Includes(toLowerCase(message), w)

\* The two body shapes.
IsAnthropicErrorBody(body) ==
  /\ DOMAIN body = {"type", "error"}
  /\ body.type = "error"
  /\ DOMAIN body.error = {"type", "message"}

IsOpenAIErrorBody(body) ==
  /\ DOMAIN body = {"error"}
  /\ DOMAIN body.error = {"message", "type", "code"}

\* C33: errorHandler writes nothing when the headers are sent; otherwise it
\* writes one JSON error body, Anthropic-shaped exactly when the path
\* contains /messages, with status 499 for a cancelled run, 503 for
\* unavailable or timeout, 500 for a message that passes none of the tests.
C33_ErrorHandler ==
  failure.called =>
    LET lower == toLowerCase(failure.message)
        out == failure.written
    IN  /\ failure.headersSent => out = << >>
        /\ ~failure.headersSent =>
             /\ Len(out) = 1
             /\ IF Includes(failure.path, "/messages")
                THEN IsAnthropicErrorBody(out[1].body)
                ELSE IsOpenAIErrorBody(out[1].body)
             /\ out[1].body.error.message = ErrorBodyMessage(failure.message)
             /\ ~MatchesEarlier(failure.message) =>
                  out[1].status =
                    IF Includes(lower, "cancelled") THEN 499
                    ELSE IF Includes(lower, "unavailable")
                            \/ Includes(lower, "timeout") THEN 503
                    ELSE 500

\* A timeout on an Anthropic path whose response has not started.
C33_Witness ==
  /\ failure.called /\ ~failure.headersSent
  /\ failure.message = "Request Timeout"
  /\ failure.path = "/v1/messages/batches"
  /\ failure.written[1].status = 503
  /\ failure.written[1].body.type = "error"

-----------------------------------------------------------------------------
(* LLMServer.start, stop, restart and isRunning, and the extension's       *)
(* restartServer. A caller is suspended at each await; the calls of the    *)
(* other callers run in between.                                           *)

Constructed == {i \in 1..MaxInstances : llmServers[i].constructed}

\* LLMServer.isRunning: this.server !== null.
isRunning(i) == llmServers[i].server

\* The http.Server of LLMServer i accepts connections.
Listening(i) == llmServers[i].http = "listening"

\* listen() can bind the configured port.
PortFree == ~portHeld /\ \A i \in 1..MaxInstances : ~Listening(i)

Task(pc_, op, target) == [pc |-> pc_, op |-> op, target |-> target]

\* LLMServer.start up to its await: nothing when this.server is set;
\* otherwise this.server = app.listen(...), whose outcome comes later.
start(k, i, op) ==
  IF llmServers[i].server
  THEN /\ llmServers' = llmServers
       /\ tasks' = [tasks EXCEPT ![k] = Task("done", op, i)]
  ELSE /\ llmServers' = [llmServers EXCEPT ![i].server = TRUE,
                                           ![i].http = "binding"]
       /\ tasks' = [tasks EXCEPT ![k] = Task("starting", op, i)]

\* LLMServer.stop up to its await: nothing when this.server is null;
\* otherwise this.server.close(callback). close() stops a listening server
\* from accepting and calls back later; on a server that is not listening
\* it calls back with an error, and stop rejects with this.server still set.
stop(k, i, op) ==
  CASE ~llmServers[i].server ->
         /\ llmServers' = llmServers
         /\ tasks' = [tasks EXCEPT ![k] = Task("stopped", op, i)]
    [] llmServers[i].server /\ Listening(i) ->
         /\ llmServers' = [llmServers EXCEPT ![i].http = "closing"]
         /\ tasks' = [tasks EXCEPT ![k] = Task("stopping", op, i)]
    [] OTHER ->
         /\ llmServers' = llmServers
         /\ tasks' = [tasks EXCEPT ![k] = Task("failed", op, i)]

\* A caller calls start(), stop() or restart() of an LLMServer.
StartCalled(k) ==
  /\ tasks[k].pc = "idle"
  /\ \E i \in Constructed : start(k, i, "start")
  /\ UNCHANGED << servedVars, handlerVars, selectionVars, pipelineVars,
                  counting, failure, server,
                  portHeld >>

StopCalled(k) ==
  /\ tasks[k].pc = "idle"
  /\ \E i \in Constructed : stop(k, i, "stop")
  /\ UNCHANGED << servedVars, handlerVars, selectionVars, pipelineVars,
                  counting, failure, server,
                  portHeld >>

\* restart: await this.stop(); await this.start().
RestartCalled(k) ==
  /\ tasks[k].pc = "idle"
  /\ \E i \in Constructed : stop(k, i, "restart")
  /\ UNCHANGED << servedVars, handlerVars, selectionVars, pipelineVars,
                  counting, failure, server,
                  portHeld >>

RestartStarts(k) ==
  /\ tasks[k].pc = "stopped" /\ tasks[k].op = "restart"
  /\ start(k, tasks[k].target, "restart")
  /\ UNCHANGED << servedVars, handlerVars, selectionVars, pipelineVars,
                  counting, failure, server,
                  portHeld >>

\* The callback of close(): this.server = null, stop resolves.
Closed(k) ==
  /\ tasks[k].pc = "stopping"
  /\ llmServers[tasks[k].target].http = "closing"
  /\ llmServers' = [llmServers EXCEPT ![tasks[k].target].server = FALSE,
                                      ![tasks[k].target].http = "closed"]
  /\ tasks' = [tasks EXCEPT ![k].pc = "stopped"]
  /\ UNCHANGED << servedVars, handlerVars, selectionVars, pipelineVars,
                  counting, failure, server,
                  portHeld >>

\* The callback of listen(): start resolves.
Listens(k) ==
  /\ tasks[k].pc = "starting"
  /\ llmServers[tasks[k].target].http = "binding"
  /\ PortFree
  /\ llmServers' = [llmServers EXCEPT ![tasks[k].target].http = "listening"]
  /\ tasks' = [tasks EXCEPT ![k].pc = "done"]
  /\ UNCHANGED << servedVars, handlerVars, selectionVars, pipelineVars,
                  counting, failure, server,
                  portHeld >>

\* The 'error' event of the http.Server (the port is in use): start
\* rejects; this.server keeps the server that is not listening.
BindFails(k) ==
  /\ tasks[k].pc = "starting"
  /\ llmServers[tasks[k].target].http = "binding"
  /\ ~PortFree
  /\ llmServers' = [llmServers EXCEPT ![tasks[k].target].http = "failed"]
  /\ tasks' = [tasks EXCEPT ![k].pc = "failed"]
  /\ UNCHANGED << servedVars, handlerVars, selectionVars, pipelineVars,
                  counting, failure, server,
                  portHeld >>

\* The call has returned or thrown; the caller can make its next call.
TaskEnds(k) ==
  /\ \/ tasks[k].pc \in {"done", "failed"}
     \/ tasks[k].pc = "stopped" /\ tasks[k].op = "stop"
  /\ tasks' = [tasks EXCEPT ![k] = TaskIdle]
  /\ UNCHANGED << servedVars, handlerVars, selectionVars, pipelineVars,
                  counting, failure, server,
                  llmServers, portHeld >>

\* Another program takes or releases the port.
OtherProgram ==
  /\ portHeld \/ PortFree
  /\ portHeld' = ~portHeld
  /\ UNCHANGED << servedVars, handlerVars, selectionVars, pipelineVars,
                  counting, failure, server,
                  llmServers, tasks >>

\* extension.ts restartServer up to its first await: server.stop() when
\* `server` is set.
RestartServerCalled(k) ==
  /\ tasks[k].pc = "idle"
  /\ IF server = NoServer
     THEN /\ tasks' = [tasks EXCEPT ![k] = Task("stopped", "restartServer", 0)]
          /\ llmServers' = llmServers
     ELSE stop(k, server, "restartServer")
  /\ UNCHANGED << servedVars, handlerVars, selectionVars, pipelineVars,
                  counting, failure, server,
                  portHeld >>

\* restartServer after `await getApiKey(context)`:
\* server = new LLMServer(...); await server.start().
RestartServerCreates(k) ==
  /\ tasks[k].pc = "stopped" /\ tasks[k].op = "restartServer"
  /\ \E i \in 1..MaxInstances :
       /\ ~llmServers[i].constructed
       /\ \A j \in 1..(i - 1) : llmServers[j].constructed
       /\ server' = i
       /\ llmServers' = [llmServers EXCEPT ![i] =
                           [constructed |-> TRUE, server |-> TRUE,
                            http |-> "binding"]]
       /\ tasks' = [tasks EXCEPT ![k] = Task("starting", "restartServer", i)]
  /\ UNCHANGED << servedVars, handlerVars, selectionVars, pipelineVars,
                  counting, failure, portHeld >>

\* One LLMServer, constructed and not started; the port free or not.
InitServer ==
  /\ RequestsInit({}) /\ AdapterIdle /\ AuthOff
  /\ counting = NoCount /\ failure = NoFailure /\ SelectionIdle
  /\ PipelineIdle
  /\ server = 1
  /\ llmServers = [i \in 1..MaxInstances |->
                     IF i = 1 THEN [NoInstance EXCEPT !.constructed = TRUE]
                     ELSE NoInstance]
  /\ portHeld \in BOOLEAN
  /\ tasks = [k \in Tasks |-> TaskIdle]

NextServer ==
  \/ \E k \in Tasks :
       \/ StartCalled(k) \/ StopCalled(k) \/ RestartCalled(k)
       \/ RestartStarts(k) \/ Closed(k) \/ Listens(k) \/ BindFails(k)
       \/ TaskEnds(k)
  \/ OtherProgram

SpecServer == InitServer /\ [][NextServer]_vars

\* activate has started the first LLMServer.
InitRestart ==
  /\ RequestsInit({}) /\ AdapterIdle /\ AuthOff
  /\ counting = NoCount /\ failure = NoFailure /\ SelectionIdle
  /\ PipelineIdle
  /\ server = 1
  /\ llmServers = [i \in 1..MaxInstances |->
                     IF i = 1 THEN [constructed |-> TRUE, server |-> TRUE,
                                    http |-> "listening"]
                     ELSE NoInstance]
  /\ portHeld = FALSE
  /\ tasks = [k \in Tasks |-> TaskIdle]

NextRestart ==
  \E k \in Tasks :
    \/ RestartServerCalled(k) \/ Closed(k) \/ RestartServerCreates(k)
    \/ Listens(k) \/ BindFails(k) \/ TaskEnds(k)

SpecRestart == InitRestart /\ [][NextRestart]_vars

\* No call of LLMServer i is suspended between its two halves.
Settled(i) == llmServers[i].http \notin {"binding", "closing"}

\* C35: whenever no call is in flight on an LLMServer, isRunning() is true
\* exactly when its http.Server is listening.
C35_RunningIffListening ==
  \A i \in Constructed : Settled(i) => (isRunning(i) <=> Listening(i))

\* start() on a running LLMServer and stop() on a stopped one change nothing.
StartStopIdempotent ==
  [][\A k \in Tasks :
       /\ (/\ tasks[k].pc = "idle" /\ tasks'[k].op = "start"
           /\ isRunning(tasks'[k].target)) => llmServers' = llmServers
       /\ (/\ tasks[k].pc = "idle" /\ tasks'[k].op = "stop"
           /\ ~isRunning(tasks'[k].target)) => llmServers' = llmServers]_vars

\* C36: at most one LLMServer is listening, and the module-level `server`
\* refers to the one that is.
C36_OneListenerReferenced ==
  \A i \in Constructed :
    Listening(i) => server = i /\ \A j \in Constructed : Listening(j) => j = i

\* At most one LLMServer is listening (they share the configured port).
AtMostOneListening ==
  \A i, j \in Constructed : Listening(i) /\ Listening(j) => i = j

-----------------------------------------------------------------------------
(* The handler's client across changes of the 'lm' configuration: the      *)
(* constructor's initializeClient, the onDidChangeConfiguration listener   *)
(* and getClient. createClient asks vscode.lm.selectChatModels under the   *)
(* configuration of the moment and resolves later.                         *)

\* What createMessage leaves alone up to its cancellation source.
selectionOthers ==
  << adapterVars, authVars, flushed, api, messages, run, lmParts, events, fmt,
     frames, ended, clientClosed, closedAt, errlog, counting, failure,
     lifecycleVars, pipelineVars >>

\* createMessage is called: ensureCleanState(), then getClient(), which
\* returns this.client when there is one (the CancellationTokenSource is
\* made next) and asks for a model otherwise.
CreateMessage(r) ==
  /\ pc[r] = "idle"
  /\ cancelled' = IF currentRequestCancellation = NULL THEN cancelled
                  ELSE cancelled \cup {currentRequestCancellation}
  /\ IF client # NULL
     THEN /\ selection' = [selection EXCEPT ![r] =
                             [startedAt |-> lmVersion, askedAt |-> 0,
                              usedAt |-> selectedAt]]
          /\ currentRequestCancellation' = r
          /\ pc' = [pc EXCEPT ![r] = "countInput"]
     ELSE /\ selection' = [selection EXCEPT ![r] =
                             [startedAt |-> lmVersion, askedAt |-> lmVersion,
                              usedAt |-> 0]]
          /\ currentRequestCancellation' = NULL
          /\ pc' = [pc EXCEPT ![r] = "getClient"]
  /\ UNCHANGED << selectionOthers, client, lmVersion, selectedAt,
                  initializing >>

\* getClient: this.client = await this.createClient(selector); createMessage
\* makes its CancellationTokenSource.
ClientCreated(r) ==
  /\ pc[r] = "getClient"
  /\ client' = "model"
  /\ selectedAt' = selection[r].askedAt
  /\ selection' = [selection EXCEPT ![r].usedAt = selection[r].askedAt]
  /\ currentRequestCancellation' = r
  /\ pc' = [pc EXCEPT ![r] = "countInput"]
  /\ UNCHANGED << selectionOthers, cancelled, lmVersion, initializing >>

\* initializeClient: this.client = await this.createClient(...), with the
\* model it asked for when the constructor ran.
InitializeClientResolved ==
  /\ initializing # 0
  /\ client' = "model"
  /\ selectedAt' = initializing
  /\ initializing' = 0
  /\ UNCHANGED << selectionOthers, pc, currentRequestCancellation, cancelled,
                  lmVersion, selection >>

\* createClient rejects: initializeClient throws, the constructor logs.
InitializeClientFailed ==
  /\ initializing # 0
  /\ initializing' = 0
  /\ UNCHANGED << selectionOthers, pc, handlerVars, lmVersion, selectedAt,
                  selection >>

\* The onDidChangeConfiguration listener, on a change that affects 'lm'.
LmConfigChange ==
  /\ lmVersion <= MaxChanges
  /\ lmVersion' = lmVersion + 1
  /\ client' = NULL
  /\ selectedAt' = 0
  /\ EnsureCleanState
  /\ UNCHANGED << selectionOthers, pc, initializing, selection >>

\* A handler just constructed, its initializeClient pending, and two
\* requests to come.
InitSelection ==
  /\ RequestsInit(Req) /\ client = NULL
  /\ \A r \in Req : api[r] = "openai" /\ messages[r] = << "Hi" >>
  /\ AdapterIdle /\ AuthOff
  /\ counting = NoCount /\ failure = NoFailure /\ LifecycleIdle
  /\ PipelineIdle
  /\ lmVersion = 1
  /\ selectedAt = 0
  /\ initializing = 1
  /\ selection = [r \in Req |-> NoSelection]

NextSelection ==
  \/ \E r \in Req :
       \/ CreateMessage(r) \/ ClientCreated(r)
       \/ CountInput(r) \/ CountInputNoToken(r) \/ SendRequest(r)
  \/ InitializeClientResolved
  \/ InitializeClientFailed
  \/ LmConfigChange

SpecSelection == InitSelection /\ [][NextSelection]_vars

\* C40: a createMessage called after a change of the 'lm' configuration
\* sends its request to a client selected after that change.
C40_FreshClientAfterChange ==
  \A r \in Req :
    pc[r] \in {"countInput", "sendRequest", "stream"} =>
      selection[r].usedAt >= selection[r].startedAt

\* The listener resets the client and cancels the source of the run in
\* flight.
ChangeResetsClient ==
  [][lmVersion' # lmVersion =>
       /\ client' = NULL
       /\ currentRequestCancellation' = NULL
       /\ currentRequestCancellation # NULL =>
            currentRequestCancellation \in cancelled']_vars

-----------------------------------------------------------------------------
(* The middleware chain of a POST to /v1/chat/completions or /v1/messages: *)
(* authentication and rate limiting (setupMiddleware), then the route's    *)
(* validator and the route handler (setupRoutes), which calls the          *)
(* formatter. helmet, cors, the body parser, the request id and the        *)
(* logging middleware come first and call next().                          *)

\* JavaScript's !v for the values of a JSON body.
JsFalsy(v) ==
  \/ v = Undefined
  \/ v = StringValue("")
  \/ IF v.type = "number" THEN v.nan \/ v.value = 0 ELSE FALSE

\* typeof v !== 'number' || v < lo || v > hi.
NotNumberIn(v, lo, hi) ==
  IF v.type # "number" THEN TRUE
  ELSE IF v.nan THEN FALSE
  ELSE v.value < lo \/ v.value > hi

\* typeof v !== 'number' || v < lo.
NotNumberFrom(v, lo) ==
  IF v.type # "number" THEN TRUE
  ELSE IF v.nan THEN FALSE
  ELSE v.value < lo

\* errors.push(message) when the test holds.
PushIf(test, message) == IF test THEN << message >> ELSE << >>

MessagesErrors(body) ==
  IF JsFalsy(body.messages) \/ body.messages.type # "array"
  THEN << "messages field is required and must be an array" >>
  ELSE PushIf(Len(body.messages.items) = 0, "messages array cannot be empty")

ModelErrors(body) ==
  PushIf(JsFalsy(body.model) \/ body.model.type # "string",
         "model field is required and must be a string")

TopPErrors(body) ==
  PushIf(body.top_p # Undefined /\ NotNumberIn(body.top_p, 0, 1),
         "top_p must be a number between 0 and 1")

\* validateOpenAIRequest: the errors it collects, in its order.
validateOpenAIRequest(body) ==
  MessagesErrors(body) \o ModelErrors(body)
  \o PushIf(body.temperature # Undefined /\ NotNumberIn(body.temperature, 0, 2),
            "temperature must be a number between 0 and 2")
  \o PushIf(body.max_tokens # Undefined /\ NotNumberFrom(body.max_tokens, 1),
            "max_tokens must be a positive number")
  \o TopPErrors(body)
  \o PushIf(body.n # Undefined /\ NotNumberFrom(body.n, 1),
            "n must be a positive number")

\* validateAnthropicRequest without the range test of max_tokens.
validateAnthropicRequestNoRange(body) ==
  ModelErrors(body) \o MessagesErrors(body)
  \o PushIf(JsFalsy(body.max_tokens), "max_tokens field is required")
  \o PushIf(body.temperature # Undefined /\ NotNumberIn(body.temperature, 0, 1),
            "temperature must be a number between 0 and 1")
  \o TopPErrors(body)
  \o PushIf(body.top_k # Undefined /\ NotNumberIn(body.top_k, 0, 500),
            "top_k must be a number between 0 and 500")

\* validateAnthropicRequest: the errors it collects, in its order.
validateAnthropicRequest(body) ==
  ModelErrors(body) \o MessagesErrors(body)
  \o (IF JsFalsy(body.max_tokens) THEN << "max_tokens field is required" >>
      ELSE PushIf(NotNumberIn(body.max_tokens, 1, 4096),
                  "max_tokens must be a number between 1 and 4096"))
  \o PushIf(body.temperature # Undefined /\ NotNumberIn(body.temperature, 0, 1),
            "temperature must be a number between 0 and 1")
  \o TopPErrors(body)
  \o PushIf(body.top_k # Undefined /\ NotNumberIn(body.top_k, 0, 500),
            "top_k must be a number between 0 and 500")

\* The validator of the route.
ValidationErrors(path, body) ==
  IF isAnthropicEndpoint(path) THEN validateAnthropicRequest(body)
  ELSE validateOpenAIRequest(body)

\* The 400 of a validator or of the route handler, per protocol.
BadRequestResponse(path, message) ==
  IF isAnthropicEndpoint(path)
  THEN JsonResponse(400, [type |-> "error",
                          error |-> [type |-> "invalid_request_error",
                                     message |-> message]])
  ELSE JsonResponse(400, [error |-> [message |-> message,
                                     type |-> "invalid_request_error",
                                     code |-> "invalid_request"]])

\* The 429 of the rate limiter, per protocol.
RateLimitResponse(path) ==
  IF isAnthropicEndpoint(path)
  THEN JsonResponse(429, [type |-> "error",
                          error |-> [type |-> "rate_limit_error",
                                     message |-> "Rate limit exceeded"]])
  ELSE JsonResponse(429, [error |-> [message |-> "Rate limit exceeded",
                                     type |-> "rate_limit_error",
                                     code |-> "rate_limit_exceeded"]])

\* What a pipeline step leaves alone besides pc, frames and ended.
pipelineOthers ==
  << adapterVars, authVars, flushed, api, messages, handlerVars, run, lmParts,
     events, fmt, clientClosed, closedAt, errlog, counting, failure,
     lifecycleVars, selectionVars, post, rateLimit >>

Reject(r, response) ==
  /\ frames' = [frames EXCEPT ![r] = Append(@, response)]
  /\ ended' = [ended EXCEPT ![r] = @ + 1]
  /\ pc' = [pc EXCEPT ![r] = "rejected"]

\* The rate limiter counts the request; over the limit it answers 429 and
\* does not call next(). A limit of 0 disables it.
RateLimitReject(r) ==
  /\ pc[r] = "routing"
  /\ rateLimit > 0 /\ hits + 1 > rateLimit
  /\ hits' = hits + 1
  /\ Reject(r, RateLimitResponse(req[r].path))
  /\ UNCHANGED pipelineOthers

RateLimitPass(r) ==
  /\ pc[r] = "routing"
  /\ rateLimit = 0 \/ hits + 1 <= rateLimit
  /\ hits' = IF rateLimit = 0 THEN hits ELSE hits + 1
  /\ pc' = [pc EXCEPT ![r] = "validating"]
  /\ UNCHANGED << pipelineOthers, frames, ended >>

\* ValidateReject that answers 400 and calls next() all the same.
ValidateRejectAndNext(r) ==
  /\ pc[r] = "validating"
  /\ ValidationErrors(req[r].path, post[r].body) # << >>
  /\ frames' = [frames EXCEPT ![r] =
       Append(@, BadRequestResponse(req[r].path,
                   Join(ValidationErrors(req[r].path, post[r].body), ", ")))]
  /\ ended' = [ended EXCEPT ![r] = @ + 1]
  /\ pc' = [pc EXCEPT ![r] = "handling"]
  /\ UNCHANGED << pipelineOthers, hits >>

\* The validator found errors: it answers 400 with the errors joined and
\* returns without calling next().
ValidateReject(r) ==
  /\ pc[r] = "validating"
  /\ ValidationErrors(req[r].path, post[r].body) # << >>
  /\ Reject(r, BadRequestResponse(req[r].path,
                 Join(ValidationErrors(req[r].path, post[r].body), ", ")))
  /\ UNCHANGED << pipelineOthers, hits >>

ValidatePass(r) ==
  /\ pc[r] = "validating"
  /\ ValidationErrors(req[r].path, post[r].body) = << >>
  /\ pc' = [pc EXCEPT ![r] = "handling"]
  /\ UNCHANGED << pipelineOthers, hits, frames, ended >>

\* The /v1/messages handler without an anthropic-version header: 400.
VersionReject(r) ==
  /\ pc[r] = "handling"
  /\ isAnthropicEndpoint(req[r].path) /\ ~Truthy(post[r].anthropicVersion)
  /\ Reject(r, BadRequestResponse(req[r].path,
                                  "anthropic-version header is required"))
  /\ UNCHANGED << pipelineOthers, hits >>

\* The route handler calls the formatter, whose first step is the inbound
\* adapter.
RouteHandler(r) ==
  /\ pc[r] = "handling"
  /\ isAnthropicEndpoint(req[r].path) => Truthy(post[r].anthropicVersion)
  /\ pc' = [pc EXCEPT ![r] = "idle"]
  /\ UNCHANGED << pipelineOthers, hits, frames, ended >>

\* The JSON bodies a client posts.
Bodies ==
  LET core == [messages : {Undefined, StringValue("Hi"), ArrayValue(<< >>),
                           ArrayValue(<< "Hi" >>)},
               model : {Undefined, StringValue(""), StringValue("gpt-4")},
               temperature : {Undefined, Number(1), Number(3)},
               max_tokens : {Undefined, Number(0), Number(4096), Number(5000)}]
      extras == { [top_p |-> Undefined, n |-> Undefined, top_k |-> Undefined],
                  [top_p |-> Number(2), n |-> Undefined, top_k |-> Undefined],
                  [top_p |-> Undefined, n |-> Number(0), top_k |-> Undefined],
                  [top_p |-> Undefined, n |-> Undefined, top_k |-> Number(501)] }
  IN  { [messages |-> c.messages, model |-> c.model,
         temperature |-> c.temperature, max_tokens |-> c.max_tokens,
         top_p |-> e.top_p, n |-> e.n, top_k |-> e.top_k] :
        c \in core, e \in extras }

\* One POST to one of the two routes: any body, with or without the
\* anthropic-version header and the key; authentication and the rate limit
\* on or off, the limit reached or not.
InitPipeline ==
  /\ config \in {[enableAuth |-> FALSE, apiKey |-> NULL],
                 [enableAuth |-> TRUE, apiKey |-> "secret"]}
  /\ req \in [Req -> [path : {"/v1/chat/completions", "/v1/messages"},
                      authorization : {NULL, "Bearer secret"},
                      xApiKey : {NULL, "secret"}]]
  /\ \A r \in Req : req[r].authorization = NULL <=> req[r].xApiKey = NULL
  /\ req["r2"] = [path |-> "/v1/messages", authorization |-> NULL,
                  xApiKey |-> NULL]
  /\ api = [r \in Req |-> IF isAnthropicEndpoint(req[r].path)
                          THEN "anthropic" ELSE "openai"]
  /\ messages = [r \in Req |-> << "Hi" >>]
  /\ pc = [r \in Req |-> IF r = "r1" THEN "arrived" ELSE "absent"]
  /\ client = "model"
  /\ currentRequestCancellation = NULL
  /\ cancelled = {}
  /\ run = [r \in Req |-> RunInit]
  /\ lmParts = [r \in Req |-> << >>]
  /\ events = [r \in Req |-> << >>]
  /\ fmt = [r \in Req |-> FormatterInit(api[r])]
  /\ frames = [r \in Req |-> << >>]
  /\ ended = [r \in Req |-> 0]
  /\ clientClosed = [r \in Req |-> FALSE]
  /\ closedAt = [r \in Req |-> 0]
  /\ errlog = [r \in Req |-> << >>]
  /\ flushed = [r \in Req |-> 0]
  /\ AdapterIdle
  /\ counting = NoCount /\ failure = NoFailure
  /\ LifecycleIdle /\ SelectionIdle
  /\ post \in [Req -> [body : Bodies, anthropicVersion : {NULL, "2023-06-01"}]]
  /\ post["r2"] = [body |-> CHOOSE b \in Bodies : TRUE, anthropicVersion |-> NULL]
  /\ rateLimit \in {0, 1}
  /\ hits \in {0, 1}
  /\ rateLimit = 0 => hits = 0

NextPipeline ==
  \E r \in Req :
    \/ AuthReject(r) \/ AuthPass(r)
    \/ RateLimitReject(r) \/ RateLimitPass(r)
    \/ ValidateReject(r) \/ ValidatePass(r)
    \/ VersionReject(r) \/ RouteHandler(r)
    \/ Start(r) \/ GetClient(r) \/ CountInput(r) \/ SendRequest(r)
    \/ StreamEnd(r) \/ CountOutput(r)

SpecPipeline == InitPipeline /\ [][NextPipeline]_vars

\* Where a request stands, as a number: the stages in their order, then the
\* formatter and the backend.
StageOf(p) ==
  CASE p = "arrived" -> 1
    [] p = "routing" -> 2
    [] p = "validating" -> 3
    [] p = "handling" -> 4
    [] p = "idle" -> 5
    [] OTHER -> 6

\* The backend has not been asked anything for request r.
BackendUntouched(r) ==
  /\ run[r] = RunInit /\ events[r] = << >> /\ lmParts[r] = << >>
  /\ currentRequestCancellation # r /\ r \notin cancelled

ReachedAdapter(r) ==
  pc[r] \in {"getClient", "countInput", "sendRequest", "stream", "countOutput",
             "done", "failed"}

NonEmptyArray(v) == v.type = "array" /\ Len(v.items) > 0

NonEmptyString(v) == v.type = "string" /\ v.value # ""

NumberWithin(v, lo, hi) ==
  IF v.type = "number" THEN ~v.nan /\ lo <= v.value /\ v.value <= hi ELSE FALSE

====
